---------------------------- MODULE Spec2Model ----------------------------
(***************************************************************************)
(* Speedcox stroke-rate detection: the motion spike detector, the GPS     *)
(* speed-peak detector, their sliding windows and the method selector.    *)
(*                                                                         *)
(* The repository holds three generations of the same program:            *)
(*   "legacy"  : src/app.js, state in top-level variables;                 *)
(*   "class"   : SensorsModel (src/js/models/sensors-new.js) and the       *)
(*               WorkoutModel class (src/unnamed/part_000, lines 10-340);  *)
(*   "modular" : src/js/app.js driving SensorModel (sensors.js), the       *)
(*               workout model, MotionController, GPSController and        *)
(*               StrokeDetectionService;                                   *)
(* and, beside them, the model objects' own methods that no application   *)
(* code calls ("api").  One behaviour runs one of them.                    *)
(*                                                                         *)
(* Arithmetic.  Timestamps are integer milliseconds.  Magnitudes are      *)
(* integers (m/s^2) and speeds integers (mm/s); the input sets are chosen  *)
(* so that every division the code performs on them is exact, and a       *)
(* comparison with a mean is done by cross-multiplication, which is the   *)
(* comparison the code makes on the exact quotient.                       *)
(***************************************************************************)
EXTENDS Integers, Sequences, FiniteSets, TLC

(***************************************************************************)
(* Program constants.                                                     *)
(***************************************************************************)
ACCELERATION_THRESHOLD == 4
MIN_STROKE_INTERVAL == 800
ACCELERATION_HISTORY_WINDOW == 10000
BASELINE_SAMPLE_SIZE == 20
STROKE_RATE_WINDOW == 10000
STROKE_TIMES_RETENTION == 120000
MAX_STROKE_RATE == 40

MIN_SAMPLES_FOR_DETECTION == 5
MIN_TIME_BETWEEN_PEAKS == 1000
PEAK_HISTORY_WINDOW == 30000
SPEED_HISTORY_WINDOW == 30000
MIN_PEAKS_FOR_RATE == 2
MAX_GPS_STROKE_RATE == 40
\* GPS_CONFIG.MIN_DISTANCE (m) and GPS_CONFIG.MIN_SPEED (0.5 m/s, in mm/s).
MIN_DISTANCE == 3
MIN_SPEED == 500
\* WorkoutStorage.saveWorkout keeps the last 100 workouts.
MAX_WORKOUTS == 100
RECENT_SPEEDS == 10

\* PEAK_THRESHOLD_MULTIPLIER is 1.1, held as the fraction 11/10.
PEAK_MULTIPLIER_NUM == 11
PEAK_MULTIPLIER_DEN == 10

\* IEEE-754 +Infinity, the value of n / 0 for n > 0: above every finite rate.
Infinity == 1000000 * 1000

(***************************************************************************)
(* Bounds of the model.                                                   *)
(***************************************************************************)
\* Date.now() when the page is loaded (epoch milliseconds in the program).
Epoch == 100000
\* The steady stretch of a sensor stream: at most this many regular samples.
MaxSteady == 20
\* Fixes of the regular stretch of a GPS stream.
MaxFixes == 7
\* Operations before the streams start.
MaxSetup == 3
\* Calls a client of the models makes.
MaxCalls == 3
\* The samples after the steady stretch, each of any magnitude and spacing.
MaxBurst == 3
\* Calls of the workout storage in one behaviour.
MaxStorageCalls == 3

Min(a, b) == IF a < b THEN a ELSE b
Max(a, b) == IF a > b THEN a ELSE b

(***************************************************************************)
(* Array helpers.                                                         *)
(***************************************************************************)
\* array.slice(-n)
Slice(arr, n) == SubSeq(arr, Max(1, Len(arr) - n + 1), Len(arr))

\* The array without the entries at or before the cutoff:
\* array.filter(a => a.timestamp > cutoff)
After(arr, cutoff) == SelectSeq(arr, LAMBDA a : a.timestamp > cutoff)

\* array.reduce((sum, a) => sum + a.magnitude, 0)
RECURSIVE SumMagnitude(_)
SumMagnitude(arr) ==
    IF arr = << >> THEN 0 ELSE Head(arr).magnitude + SumMagnitude(Tail(arr))

\* array.reduce((sum, s) => sum + s.speed, 0)
RECURSIVE SumSpeed(_)
SumSpeed(arr) ==
    IF arr = << >> THEN 0 ELSE Head(arr).speed + SumSpeed(Tail(arr))

\* array.reduce((sum, s) => sum + s.rate, 0)
RECURSIVE SumRate(_)
SumRate(arr) ==
    IF arr = << >> THEN 0 ELSE Head(arr).rate + SumRate(Tail(arr))

\* Math.round(60000 * n / ms), ms > 0: Math.round rounds half up.
RoundPerMinute(n, ms) == (2 * 60000 * n + ms) \div (2 * ms)

\* Math.round((n / (ms / 1000)) * 60) for n > 0 and any ms, as the code that
\* does not test its divisor computes it: n / 0 is +Infinity, and so is its
\* rounding; a negative quotient rounds half up as well.
UnguardedPerMinute(n, ms) ==
    IF ms = 0 THEN Infinity
    ELSE IF ms > 0 THEN RoundPerMinute(n, ms)
    ELSE (0 - 2 * 60000 * n - ms) \div (0 - 2 * ms)

Abs(a) == IF a < 0 THEN 0 - a ELSE a


(***************************************************************************)
(* src/js/controllers/audio.js (utils/calculations.js): pure functions.   *)
(***************************************************************************)
\* calculateStrokeRate(strokeCount, timeSpanSeconds, maxRate); the time span
\* is passed in milliseconds, timeSpanSeconds = timeSpanMs / 1000.
\* calculateStrokeRate without Math.min(..., maxRate).
calculateStrokeRate_uncapped(strokeCount, timeSpanMs, maxRate) ==
    IF timeSpanMs <= 0 THEN 0 ELSE RoundPerMinute(strokeCount, timeSpanMs)

calculateStrokeRate(strokeCount, timeSpanMs, maxRate) ==
    IF timeSpanMs <= 0 THEN 0
    ELSE Min(RoundPerMinute(strokeCount, timeSpanMs), maxRate)

\* value > calculateAverage(arr.map(d => d.magnitude)) + margin, on the
\* exact mean: value * n > sum + margin * n.
AboveAverage(value, arr, margin) ==
    value * Len(arr) > SumMagnitude(arr) + margin * Len(arr)

(***************************************************************************)
(* StrokeDetectionService.motion.detectStroke                              *)
(* (src/js/services/strokeDetection.js).  null is [detected |-> FALSE].   *)
(***************************************************************************)
NoStroke == [detected |-> FALSE, strokeRate |-> 0, timestamp |-> 0,
             recentStrokeCount |-> 0]

\* detectStroke with the interval test timestamp - lastStrokeTime >= 800.
detectStroke_nonstrict(accelerationHistory, currentMagnitude, timestamp, lastStrokeTime) ==
    IF Len(accelerationHistory) < BASELINE_SAMPLE_SIZE THEN NoStroke
    ELSE LET recentData == Slice(accelerationHistory, BASELINE_SAMPLE_SIZE)
         IN IF /\ AboveAverage(currentMagnitude, recentData, ACCELERATION_THRESHOLD)
               /\ timestamp - lastStrokeTime >= MIN_STROKE_INTERVAL
            THEN [detected |-> TRUE, strokeRate |-> 0, timestamp |-> timestamp, recentStrokeCount |-> 0]
            ELSE NoStroke

\* detectStroke with the magnitude test currentMagnitude >= threshold.
detectStroke_atOrAbove(accelerationHistory, currentMagnitude, timestamp, lastStrokeTime) ==
    IF Len(accelerationHistory) < BASELINE_SAMPLE_SIZE THEN NoStroke
    ELSE LET recentData == Slice(accelerationHistory, BASELINE_SAMPLE_SIZE)
         IN IF /\ currentMagnitude * Len(recentData)
                     >= SumMagnitude(recentData) + ACCELERATION_THRESHOLD * Len(recentData)
               /\ timestamp - lastStrokeTime > MIN_STROKE_INTERVAL
            THEN [detected |-> TRUE, strokeRate |-> 0, timestamp |-> timestamp, recentStrokeCount |-> 0]
            ELSE NoStroke

\* detectStroke that counts the samples before the current one only.
detectStroke_earlierOnly(accelerationHistory, currentMagnitude, timestamp, lastStrokeTime) ==
    IF Len(accelerationHistory) < BASELINE_SAMPLE_SIZE THEN NoStroke
    ELSE
      LET recentData == Slice(accelerationHistory, BASELINE_SAMPLE_SIZE)
          earlier == SubSeq(accelerationHistory, 1, Len(accelerationHistory) - 1)
          recentStrokes ==
              Len(SelectSeq(earlier,
                  LAMBDA a : /\ a.timestamp > timestamp - STROKE_RATE_WINDOW
                             /\ AboveAverage(a.magnitude, recentData,
                                             ACCELERATION_THRESHOLD - 1)))
      IN IF /\ AboveAverage(currentMagnitude, recentData, ACCELERATION_THRESHOLD)
            /\ timestamp - lastStrokeTime > MIN_STROKE_INTERVAL
         THEN [detected |-> TRUE,
               strokeRate |-> calculateStrokeRate(recentStrokes, STROKE_RATE_WINDOW,
                                                  MAX_STROKE_RATE),
               timestamp |-> timestamp,
               recentStrokeCount |-> recentStrokes]
         ELSE NoStroke

MotionStrokeDetection_detectStroke(accelerationHistory, currentMagnitude, timestamp, lastStrokeTime) ==
    IF Len(accelerationHistory) < BASELINE_SAMPLE_SIZE THEN NoStroke
    ELSE
      LET recentData == Slice(accelerationHistory, BASELINE_SAMPLE_SIZE)
          isSignificantMotion ==
              AboveAverage(currentMagnitude, recentData, ACCELERATION_THRESHOLD)
          isNewStroke == timestamp - lastStrokeTime > MIN_STROKE_INTERVAL
          windowSize == STROKE_RATE_WINDOW
          recentStrokes ==
              Len(SelectSeq(accelerationHistory,
                  LAMBDA a : /\ a.timestamp > timestamp - windowSize
                             /\ AboveAverage(a.magnitude, recentData,
                                             ACCELERATION_THRESHOLD - 1)))
      IN IF isSignificantMotion /\ isNewStroke
         THEN [detected |-> TRUE,
               strokeRate |-> calculateStrokeRate(recentStrokes, windowSize,
                                                  MAX_STROKE_RATE),
               timestamp |-> timestamp,
               recentStrokeCount |-> recentStrokes]
         ELSE NoStroke


(***************************************************************************)
(* Means.  A JavaScript quotient p / q of integers is kept as the pair of *)
(* its terms; 0 / 0 is NaN, and every quotient 0 / q with q > 0 is 0.      *)
(***************************************************************************)
Quotient(p, q) ==
    IF q # 0 /\ p = 0 THEN [num |-> 0, den |-> 1] ELSE [num |-> p, den |-> q]

NaN == Quotient(0, 0)

Zero == Quotient(0, 1)

\* values.reduce((total, val) => total + val, 0)
RECURSIVE SumValues(_)
SumValues(values) ==
    IF values = << >> THEN 0 ELSE Head(values) + SumValues(Tail(values))

\* array.map(d => d.magnitude)
Magnitude(arr) == [i \in 1..Len(arr) |-> arr[i].magnitude]

\* array.map(s => s.speed)
Speed(arr) == [i \in 1..Len(arr) |-> arr[i].speed]

\* NaN as a sample's magnitude: the one value below every magnitude.
NaNMagnitude == 0 - 1

\* A sum of values one of which is NaN is NaN, and so is its quotient.
HasNaN(values) == \E i \in 1..Len(values) : values[i] = NaNMagnitude

\* calculateAverage without the test for the empty array.
calculateAverage_unguarded(values) == Quotient(SumValues(values), Len(values))

\* calculateAverage(values)
calculateAverage(values) ==
    IF Len(values) = 0 THEN Zero
    ELSE IF HasNaN(values) THEN NaN
    ELSE Quotient(SumValues(values), Len(values))

\* SensorModel.getAverageAcceleration(), with getRecentAcceleration(20)
getAverageAcceleration(s) ==
    LET recent == Slice(s.accelerationHistory, 20)
    IN IF Len(recent) = 0 THEN Zero
       ELSE IF HasNaN(Magnitude(recent)) THEN NaN
       ELSE Quotient(SumMagnitude(recent), Len(recent))

\* MotionStrokeDetection.calculateBaseline(accelerationHistory)
calculateBaseline(accelerationHistory) ==
    IF Len(accelerationHistory) < BASELINE_SAMPLE_SIZE THEN Zero
    ELSE calculateAverage(Magnitude(Slice(accelerationHistory, BASELINE_SAMPLE_SIZE)))

\* GPSStrokeDetection.calculateAverageSpeed(speedHistory)
calculateAverageSpeed(speedHistory) ==
    IF Len(speedHistory) = 0 THEN Zero
    ELSE calculateAverage(Speed(speedHistory))

(***************************************************************************)
(* Input sets.                                                            *)
(***************************************************************************)
\* Acceleration magnitudes (m/s^2) and the level of the steady stretch.
\* Acceleration magnitudes: the boat at rest on the water, a stroke.
Baseline == 10
Spike == 50
Magnitudes == {0, Baseline, 30, Spike}
\* Milliseconds between two motion events: in the regular stretch, and free.
MotionTick == 500
MotionSteps == {0, 500, 800, 10000}
\* The regular stretch may step up from Baseline to Spike at this sample.
RiseAt == 14
\* Metres between two GPS fixes and milliseconds between them; a fix may
\* carry the timestamp of the one before it, or an earlier one.
SteadyMove == 4
Moves == {2, 5, 6, 240}
GPSTick == 1000
GPSSteps == {0 - 500, 0, 1000, 1250, 40000}
\* The sawtooth: samples per spike, the height of a spike, samples in all.
SamplesPerSpike == {2, 4, 5}
SawtoothRise == 6
MaxSawtooth == 60
\* Values a caller passes for a rate.
Rates == {0, 24, 26, 40}

\* The values of the two announcement dropdowns, in ms; 0 is "off".
AnnounceIntervals == {0, 10000, 30000}

Programs == {"legacy", "class", "modular", "api"}
Methods == {"gps", "motion", "both"}

\* null
null == << >>

(***************************************************************************)
(* State.                                                                 *)
(***************************************************************************)
VARIABLES
    program,          \* which generation of the program this behaviour runs
    now,              \* Date.now(), and the timestamp of the next GPS fix
    env,              \* the sensor streams and what is left of the bounds
    lastOp,           \* the operation that made the last step
    legacy,           \* src/app.js: its top-level variables
    SensorsModel,     \* sensors-new.js: the SensorsModel instance
    WorkoutModel,     \* part_000: the workout model (class fields)
    SensorModel,      \* sensors.js: the SensorModel object
    MotionController, \* part_002: the MotionController object
    GPSController,    \* part_001: the GPSController object
    WorkoutData,      \* part_000, lines 350-516: the workout data object
    query,            \* the last call of a rate selector and what it returned
    ui                \* src/js/app.js: the elements shown, the speech queued, the workout saved

vars == << program, now, env, lastOp, legacy, SensorsModel, WorkoutModel, SensorModel, MotionController, GPSController, WorkoutData, query, ui >>


(***************************************************************************)
(* Sensor inputs.  A position is a point on the boat's course, in metres: *)
(* calculateDistance (the haversine distance of two fixes) is the length  *)
(* of the course between them.                                            *)
(***************************************************************************)
calculateDistance(pos1, pos2) == Abs(pos2.x - pos1.x)

\* distance / timeDiff, timeDiff = timeDiffMs / 1000 > 0, in mm/s.
SpeedOf(distance, timeDiffMs) == (distance * 1000000) \div timeDiffMs

\* speed > avgSpeed * 1.1 with avgSpeed the mean of recentSpeeds.
AbovePeakThreshold(speed, recentSpeeds) ==
    speed * PEAK_MULTIPLIER_DEN * Len(recentSpeeds)
        > PEAK_MULTIPLIER_NUM * SumSpeed(recentSpeeds)

(***************************************************************************)
(* What the stroke rate element shows: the method it was written for and  *)
(* the two rates, each a number or '--' (null).                            *)
(***************************************************************************)
StrokeRateText(method, gps, motion) == [method |-> method, gps |-> gps, motion |-> motion]

\* rate > 0 ? rate : '--'
Shown(rate) == IF rate > 0 THEN << rate >> ELSE null

\* textContent = '--'
Dashes == StrokeRateText("none", null, null)

\* textContent !== '--'
NotDashes(text) == text.method \in {"both", "Enable Motion"} \/ text.gps # null \/ text.motion # null

\* Math.round(sum / n) of non-negative integers, n > 0
RoundDiv(sum, n) == (2 * sum + n) \div (2 * n)

(***************************************************************************)
(* The legacy program, src/app.js.                                        *)
(***************************************************************************)
legacyFresh ==
    [ isRunning |-> FALSE, totalDistance |-> 0, lastPosition |-> null,
      startTime |-> null, strokeCount |-> 0, strokeTimes |-> << >>,
      speedHistory |-> << >>, watchId |-> FALSE, motionPermission |-> FALSE,
      listening |-> FALSE,
      accelerationHistory |-> << >>, lastStrokeDetection |-> 0,
      currentStrokeRate |-> 0, gpsStrokeRate |-> 0, speedPeaks |-> << >>,
      lastSpeedPeak |-> 0, strokeRateMethod |-> "gps",
      lastStrokeRateAnnounce |-> 0, lastSplitAnnounce |-> 0,
      strokeRateEl |-> Dashes, splitEl |-> FALSE,
      summaryAvgStrokeRate |-> null, spoken |-> {}, timeouts |-> 0 ]

\* detectStroke with the threshold avgMagnitude + 7.
legacy_detectStroke_margin7(g, magnitude, timestamp) ==
    IF Len(g.accelerationHistory) < 20 THEN g
    ELSE IF /\ AboveAverage(magnitude, Slice(g.accelerationHistory, 20), 7)
            /\ timestamp - g.lastStrokeDetection > 800
         THEN [g EXCEPT !.strokeCount = @ + 1, !.lastStrokeDetection = timestamp,
                        !.currentStrokeRate = 40]
         ELSE g

\* detectStroke whose rate decays to 0 on a sample that does not fire.
legacy_detectStroke_decay(g, magnitude, timestamp) ==
    IF Len(g.accelerationHistory) < 20 THEN g
    ELSE
      LET recentData == Slice(g.accelerationHistory, 20)
          windowSize == 10000
          recentStrokes ==
              Len(SelectSeq(g.accelerationHistory,
                  LAMBDA a : /\ a.timestamp > timestamp - windowSize
                             /\ AboveAverage(a.magnitude, recentData, 3)))
          rate == Min(RoundPerMinute(recentStrokes, windowSize), 40)
      IN IF /\ AboveAverage(magnitude, recentData, 4)
            /\ timestamp - g.lastStrokeDetection > 800
         THEN [g EXCEPT
                 !.strokeCount = @ + 1,
                 !.lastStrokeDetection = timestamp,
                 !.currentStrokeRate = rate,
                 !.strokeTimes =
                     After(Append(@, [rate |-> rate, timestamp |-> timestamp]),
                           timestamp - 120000)]
         ELSE [g EXCEPT !.currentStrokeRate = 0]

\* detectStroke that reports the count of the window as the rate.
legacy_detectStroke_count(g, magnitude, timestamp) ==
    IF Len(g.accelerationHistory) < 20 THEN g
    ELSE
      LET recentData == Slice(g.accelerationHistory, 20)
          recentStrokes ==
              Len(SelectSeq(g.accelerationHistory,
                  LAMBDA a : /\ a.timestamp > timestamp - 10000
                             /\ AboveAverage(a.magnitude, recentData, 3)))
          rate == Min(recentStrokes, 40)
      IN IF /\ AboveAverage(magnitude, recentData, 4)
            /\ timestamp - g.lastStrokeDetection > 800
         THEN [g EXCEPT
                 !.strokeCount = @ + 1,
                 !.lastStrokeDetection = timestamp,
                 !.currentStrokeRate = rate,
                 !.strokeTimes =
                     After(Append(@, [rate |-> rate, timestamp |-> timestamp]),
                           timestamp - 120000)]
         ELSE g

\* detectStroke(magnitude, timestamp)
legacy_detectStroke(g, magnitude, timestamp) ==
    IF Len(g.accelerationHistory) < 20 THEN g
    ELSE
      LET recentData == Slice(g.accelerationHistory, 20)
          windowSize == 10000
          recentStrokes ==
              Len(SelectSeq(g.accelerationHistory,
                  LAMBDA a : /\ a.timestamp > timestamp - windowSize
                             /\ AboveAverage(a.magnitude, recentData, 3)))
          rate == Min(RoundPerMinute(recentStrokes, windowSize), 40)
      IN IF /\ AboveAverage(magnitude, recentData, 4)
            /\ timestamp - g.lastStrokeDetection > 800
         THEN [g EXCEPT
                 !.strokeCount = @ + 1,
                 !.lastStrokeDetection = timestamp,
                 !.currentStrokeRate = rate,
                 !.strokeTimes =
                     After(Append(@, [rate |-> rate, timestamp |-> timestamp]),
                           timestamp - 120000)]
         ELSE g

\* handleDeviceMotion(event): magnitude is the event's acceleration
\* magnitude, timestamp is Date.now().
legacy_handleDeviceMotion(g, magnitude, timestamp) ==
    IF ~g.isRunning \/ ~g.motionPermission THEN g
    ELSE
      LET pushed == Append(g.accelerationHistory,
                           [magnitude |-> magnitude, timestamp |-> timestamp])
          cutoff == timestamp - 10000
      IN legacy_detectStroke(
             [g EXCEPT !.accelerationHistory = After(pushed, cutoff)],
             magnitude, timestamp)

\* analyzeSpeedForStrokeRate with the test timestamp - lastSpeedPeak >= 1000.
legacy_analyzeSpeedForStrokeRate_nonstrict(g, speed, timestamp) ==
    IF Len(g.speedHistory) < 5 THEN g
    ELSE
      LET peaks == After(Append(g.speedPeaks,
                                [speed |-> speed, timestamp |-> timestamp]),
                         timestamp - 30000)
      IN IF /\ AbovePeakThreshold(speed, Slice(g.speedHistory, 10))
            /\ timestamp - g.lastSpeedPeak >= 1000
         THEN [g EXCEPT !.speedPeaks = peaks, !.lastSpeedPeak = timestamp]
         ELSE g

\* analyzeSpeedForStrokeRate(speed, timestamp)
legacy_analyzeSpeedForStrokeRate(g, speed, timestamp) ==
    IF Len(g.speedHistory) < 5 THEN g
    ELSE
      LET recentSpeeds == Slice(g.speedHistory, 10)
          isPeak == AbovePeakThreshold(speed, recentSpeeds)
          peaks == After(Append(g.speedPeaks,
                                [speed |-> speed, timestamp |-> timestamp]),
                         timestamp - 30000)
          timeSpan == peaks[Len(peaks)].timestamp - peaks[1].timestamp
      IN IF isPeak /\ timestamp - g.lastSpeedPeak > 1000
         THEN [g EXCEPT
                 !.speedPeaks = peaks,
                 !.lastSpeedPeak = timestamp,
                 !.gpsStrokeRate =
                     IF Len(peaks) >= 2
                     THEN Min(UnguardedPerMinute(Len(peaks) - 1, timeSpan), 40)
                     ELSE @]
         ELSE g

\* The call analyzeSpeedForStrokeRate(speed, timestamp) that
\* updatePosition(position) makes: its speed and the distance of the fix pair
\* it comes from, or null when the handler makes no call.
legacy_analysed(g, currentPos) ==
    IF ~g.isRunning \/ g.lastPosition = null THEN null
    ELSE LET last == g.lastPosition[1]
             distance == calculateDistance(last, currentPos)
             timeDiff == currentPos.timestamp - last.timestamp
         IN IF distance > 3 /\ timeDiff > 0
            THEN << [speed |-> SpeedOf(distance, timeDiff), distance |-> distance] >>
            ELSE null

\* updatePosition that records the speed of a slow fix before analysing it.
legacy_updatePosition_slowRecorded(g, currentPos) ==
    IF ~g.isRunning THEN g
    ELSE
      LET last == g.lastPosition[1]
          distance == calculateDistance(last, currentPos)
          timeDiff == currentPos.timestamp - last.timestamp
          speed == SpeedOf(distance, timeDiff)
          real == [g EXCEPT
                     !.totalDistance = @ + distance,
                     !.speedHistory =
                         After(Append(@, [speed |-> speed,
                                          timestamp |-> currentPos.timestamp]),
                               currentPos.timestamp - 30000)]
          moved ==
              IF g.lastPosition = null THEN g
              ELSE IF distance > 3 /\ timeDiff > 0
                   THEN legacy_analyzeSpeedForStrokeRate(
                            IF speed >= MIN_SPEED THEN real
                            ELSE [real EXCEPT !.totalDistance = g.totalDistance],
                            speed, currentPos.timestamp)
                   ELSE g
      IN [moved EXCEPT !.lastPosition = << currentPos >>]

\* updatePosition(position)
legacy_updatePosition(g, currentPos) ==
    IF ~g.isRunning THEN g
    ELSE
      LET last == g.lastPosition[1]
          distance == calculateDistance(last, currentPos)
          timeDiff == currentPos.timestamp - last.timestamp
          speed == SpeedOf(distance, timeDiff)
          real == [g EXCEPT
                     !.totalDistance = @ + distance,
                     !.speedHistory =
                         After(Append(@, [speed |-> speed,
                                          timestamp |-> currentPos.timestamp]),
                               currentPos.timestamp - 30000)]
          moved ==
              IF g.lastPosition = null THEN g
              ELSE IF distance > 3 /\ timeDiff > 0
                   THEN legacy_analyzeSpeedForStrokeRate(
                            IF speed >= MIN_SPEED THEN real ELSE g,
                            speed, currentPos.timestamp)
                   ELSE g
      IN [moved EXCEPT !.lastPosition = << currentPos >>]

\* updateStrokeRate(elapsed); the method dropdown holds strokeRateMethod.
legacy_updateStrokeRate(g) ==
    IF ~g.isRunning THEN g
    ELSE IF g.strokeRateMethod = "gps"
    THEN [g EXCEPT !.strokeRateEl = StrokeRateText("gps", Shown(g.gpsStrokeRate), null)]
    ELSE IF g.strokeRateMethod = "motion"
    THEN [g EXCEPT !.strokeRateEl =
             IF g.motionPermission
             THEN StrokeRateText("motion", null, Shown(g.currentStrokeRate))
             ELSE StrokeRateText("Enable Motion", null, null)]
    ELSE [g EXCEPT !.strokeRateEl =
             StrokeRateText("both", Shown(g.gpsStrokeRate),
                            IF g.motionPermission THEN Shown(g.currentStrokeRate) ELSE null)]

\* handleAudioAnnouncements(elapsed): the two intervals are the values of
\* the dropdowns, elapsed and the intervals in ms; spoken collects the
\* announcements of this call.
legacy_handleAudioAnnouncements(g, elapsed, strokeRateInterval, splitInterval) ==
    LET rate == /\ strokeRateInterval > 0
                /\ elapsed - g.lastStrokeRateAnnounce >= strokeRateInterval
                /\ NotDashes(g.strokeRateEl)
        split == /\ splitInterval > 0
                 /\ elapsed - g.lastSplitAnnounce >= splitInterval
                 /\ g.splitEl
    IN [g EXCEPT !.lastStrokeRateAnnounce = IF rate THEN elapsed ELSE @,
                 !.lastSplitAnnounce = IF split THEN elapsed ELSE @,
                 !.spoken = (IF rate THEN {"strokeRate"} ELSE {})
                                \cup (IF split THEN {"split"} ELSE {})]

\* updateDisplay() at time t; timeouts counts the pending
\* setTimeout(updateDisplay, 100) calls.
legacy_updateDisplay(g, t, strokeRateInterval, splitInterval) ==
    IF ~g.isRunning THEN g
    ELSE [legacy_handleAudioAnnouncements(
              legacy_updateStrokeRate(
                  [g EXCEPT !.splitEl = @ \/ SumSpeed(g.speedHistory) > 0]),
              t - g.startTime[1], strokeRateInterval, splitInterval)
            EXCEPT !.timeouts = @ + 1]

\* showWorkoutSummary()
legacy_showWorkoutSummary(g) ==
    IF Len(g.strokeTimes) > 0
    THEN [g EXCEPT !.summaryAvgStrokeRate =
             << RoundDiv(SumRate(g.strokeTimes), Len(g.strokeTimes)) >>]
    ELSE g

\* startWorkout() at time t, with its call of updateDisplay().
legacy_startWorkout(g, t) ==
    IF g.isRunning THEN g
    ELSE legacy_updateDisplay(
             [g EXCEPT !.isRunning = TRUE, !.startTime = << t >>,
                       !.lastStrokeRateAnnounce = 0, !.lastSplitAnnounce = 0,
                       !.watchId = IF g.strokeRateMethod \in {"gps", "both"}
                                   THEN TRUE ELSE @],
             t, 0, 0)

\* stopWorkout()
legacy_stopWorkout(g) ==
    IF ~g.isRunning THEN g
    ELSE legacy_showWorkoutSummary([g EXCEPT !.isRunning = FALSE, !.watchId = FALSE])

\* resetWorkout()
legacy_resetWorkout(g) ==
    [legacy_stopWorkout(g) EXCEPT
        !.totalDistance = 0, !.strokeCount = 0, !.strokeTimes = << >>,
        !.speedHistory = << >>, !.lastPosition = null,
        !.startTime = null, !.currentStrokeRate = 0,
        !.strokeRateEl = Dashes, !.splitEl = FALSE]

\* requestMotionPermission(): granted is the platform's answer.
\* with setupMotionListeners() on a grant.
legacy_requestMotionPermission(g, granted) ==
    IF granted THEN [g EXCEPT !.motionPermission = TRUE, !.listening = TRUE]
    ELSE [g EXCEPT !.motionPermission = FALSE]

\* changeStrokeRateMethod()
legacy_changeStrokeRateMethod(g, method) ==
    [g EXCEPT !.strokeRateMethod = method]


(***************************************************************************)
(* The class program: SensorsModel (src/js/models/sensors-new.js) and the *)
(* WorkoutModel class (src/unnamed/part_000).                             *)
(***************************************************************************)
SensorsModelFresh ==
    [ motionPermission |-> FALSE, isListening |-> FALSE, strokeCount |-> 0,
      lastStrokeTime |-> 0, lastStrokeDetection |-> 0,
      currentStrokeRate |-> 0, accelerationHistory |-> << >>,
      strokeTimes |-> << >>, handlers |-> 0 ]

\* SensorsModel.setupListeners(): handlers counts the devicemotion handlers
\* registered on the window; the handler is the bound method the
\* constructor stored.
SensorsModel_setupListeners(s) ==
    IF s.isListening THEN s
    ELSE [s EXCEPT !.isListening = TRUE, !.handlers = 1]

\* SensorsModel.requestPermission(): granted is the platform's answer.
SensorsModel_requestPermission(s, granted) ==
    IF granted THEN SensorsModel_setupListeners([s EXCEPT !.motionPermission = TRUE])
    ELSE [s EXCEPT !.motionPermission = FALSE]

\* SensorsModel.detectStroke with the threshold avgMagnitude - 4.
SensorsModel_detectStroke_below(s, magnitude, timestamp) ==
    IF Len(s.accelerationHistory) < 20 THEN s
    ELSE IF /\ AboveAverage(magnitude, Slice(s.accelerationHistory, 20), 0 - 4)
            /\ timestamp - s.lastStrokeDetection > 800
         THEN [s EXCEPT !.strokeCount = @ + 1, !.lastStrokeDetection = timestamp]
         ELSE s

\* SensorsModel.detectStroke(magnitude, timestamp)
SensorsModel_detectStroke(s, magnitude, timestamp) ==
    IF Len(s.accelerationHistory) < 20 THEN s
    ELSE
      LET recentData == Slice(s.accelerationHistory, 20)
          windowSize == 10000
          recentStrokes ==
              Len(SelectSeq(s.accelerationHistory,
                  LAMBDA a : /\ a.timestamp > timestamp - windowSize
                             /\ AboveAverage(a.magnitude, recentData, 3)))
          rate == Min(RoundPerMinute(recentStrokes, windowSize), 40)
      IN IF /\ AboveAverage(magnitude, recentData, 4)
            /\ timestamp - s.lastStrokeDetection > 800
         THEN [s EXCEPT
                 !.strokeCount = @ + 1,
                 !.lastStrokeDetection = timestamp,
                 !.currentStrokeRate = rate,
                 !.strokeTimes =
                     After(Append(@, [rate |-> rate, timestamp |-> timestamp]),
                           timestamp - 120000)]
         ELSE s

\* SensorsModel.handleDeviceMotion(event)
SensorsModel_handleDeviceMotion(s, magnitude, timestamp) ==
    IF ~s.motionPermission THEN s
    ELSE
      LET pushed == Append(s.accelerationHistory,
                           [magnitude |-> magnitude, timestamp |-> timestamp])
          cutoff == timestamp - 10000
      IN SensorsModel_detectStroke(
             [s EXCEPT !.accelerationHistory = After(pushed, cutoff)],
             magnitude, timestamp)

\* SensorsModel.reset() that also forgets the permission and the listener.
SensorsModel_reset_all(s) == SensorsModelFresh

\* SensorsModel.reset()
SensorsModel_reset(s) ==
    [s EXCEPT !.strokeCount = 0, !.lastStrokeTime = 0,
              !.lastStrokeDetection = 0, !.currentStrokeRate = 0,
              !.accelerationHistory = << >>, !.strokeTimes = << >>]

\* SensorsModel.removeListeners(): removes the bound method it registered.
SensorsModel_removeListeners(s) ==
    IF ~s.isListening THEN s
    ELSE [s EXCEPT !.isListening = FALSE, !.handlers = 0]

\* SensorsModel.cleanup()
SensorsModel_cleanup(s) == SensorsModel_reset(SensorsModel_removeListeners(s))

WorkoutModelFresh ==
    [ isRunning |-> FALSE, startTime |-> null, totalDistance |-> 0,
      strokeCount |-> 0, lastPosition |-> null, watchId |-> FALSE,
      speedHistory |-> << >>, gpsStrokeRate |-> 0, speedPeaks |-> << >>,
      lastSpeedPeak |-> 0, lastStrokeRateAnnounce |-> 0, lastSplitAnnounce |-> 0 ]

\* WorkoutModel.start(useGPS, positionCallback, errorCallback) at time t
WorkoutModel_start(w, useGPS, t) ==
    IF w.isRunning THEN w
    ELSE [w EXCEPT !.isRunning = TRUE, !.startTime = << t >>,
                   !.lastStrokeRateAnnounce = 0, !.lastSplitAnnounce = 0,
                   !.watchId = IF useGPS THEN TRUE ELSE @]

\* WorkoutModel.stop()
WorkoutModel_stop(w) ==
    IF ~w.isRunning THEN w
    ELSE [w EXCEPT !.isRunning = FALSE, !.watchId = FALSE]

\* WorkoutModel.reset()
WorkoutModel_reset(w) ==
    [WorkoutModel_stop(w) EXCEPT
        !.totalDistance = 0, !.strokeCount = 0, !.speedHistory = << >>,
        !.lastPosition = null, !.startTime = null, !.gpsStrokeRate = 0,
        !.speedPeaks = << >>, !.lastSpeedPeak = 0]

\* WorkoutModel.analyzeSpeedForStrokeRate(speed, timestamp)
WorkoutModel_analyzeSpeedForStrokeRate(w, speed, timestamp) ==
    IF Len(w.speedHistory) < 5 THEN w
    ELSE
      LET recentSpeeds == Slice(w.speedHistory, 10)
          isPeak == AbovePeakThreshold(speed, recentSpeeds)
          peaks == After(Append(w.speedPeaks,
                                [speed |-> speed, timestamp |-> timestamp]),
                         timestamp - 30000)
          timeSpan == peaks[Len(peaks)].timestamp - peaks[1].timestamp
      IN IF isPeak /\ timestamp - w.lastSpeedPeak > 1000
         THEN [w EXCEPT
                 !.speedPeaks = peaks,
                 !.lastSpeedPeak = timestamp,
                 !.gpsStrokeRate =
                     IF Len(peaks) >= 2
                     THEN Min(UnguardedPerMinute(Len(peaks) - 1, timeSpan), 40)
                     ELSE @]
         ELSE w

\* The call this.analyzeSpeedForStrokeRate(speed, timestamp) that
\* WorkoutModel.updatePosition(position) makes, or null.
WorkoutModel_analysed(w, currentPos) ==
    IF ~w.isRunning \/ w.lastPosition = null THEN null
    ELSE LET last == w.lastPosition[1]
             distance == calculateDistance(last, currentPos)
             timeDiff == currentPos.timestamp - last.timestamp
         IN IF distance > 3 /\ timeDiff > 0 /\ SpeedOf(distance, timeDiff) >= MIN_SPEED
            THEN << [speed |-> SpeedOf(distance, timeDiff), distance |-> distance] >>
            ELSE null

\* WorkoutModel.updatePosition(position)
WorkoutModel_updatePosition(w, currentPos) ==
    IF ~w.isRunning THEN w
    ELSE
      LET last == w.lastPosition[1]
          distance == calculateDistance(last, currentPos)
          timeDiff == currentPos.timestamp - last.timestamp
          speed == SpeedOf(distance, timeDiff)
          real == [w EXCEPT
                     !.totalDistance = @ + distance,
                     !.speedHistory =
                         After(Append(@, [speed |-> speed,
                                          timestamp |-> currentPos.timestamp]),
                               currentPos.timestamp - 30000)]
          moved ==
              IF w.lastPosition = null THEN w
              ELSE IF distance > 3 /\ timeDiff > 0 /\ speed >= MIN_SPEED
                   THEN WorkoutModel_analyzeSpeedForStrokeRate(
                            real, speed, currentPos.timestamp)
                   ELSE w
      IN [moved EXCEPT !.lastPosition = << currentPos >>]


(***************************************************************************)
(* The modular program: src/js/app.js over SensorModel                    *)
(* (src/js/models/sensors.js), the WorkoutModel class, MotionController   *)
(* (src/unnamed/part_002), GPSController (src/unnamed/part_001) and the   *)
(* detection service (src/js/services/strokeDetection.js).                *)
(***************************************************************************)
\* A JavaScript number as a returned value; the object returned for 'both'
\* is a record with the fields motion and gps.
Number(n) == [number |-> n]

SensorModelFresh ==
    [ motionPermission |-> FALSE, accelerationHistory |-> << >>,
      lastStrokeDetection |-> 0, currentStrokeRate |-> 0,
      gpsStrokeRate |-> 0, speedPeaks |-> << >>, lastSpeedPeak |-> 0,
      strokeRateMethod |-> "gps" ]

SensorModel_enableMotion(s) == [s EXCEPT !.motionPermission = TRUE]

SensorModel_disableMotion(s) == [s EXCEPT !.motionPermission = FALSE]

\* SensorModel.addAcceleration that appends and evicts nothing.
SensorModel_addAcceleration_keep(s, magnitude, timestamp) ==
    [s EXCEPT !.accelerationHistory =
        Append(@, [magnitude |-> magnitude, timestamp |-> timestamp])]

SensorModel_addAcceleration(s, magnitude, timestamp) ==
    [s EXCEPT !.accelerationHistory =
        After(Append(@, [magnitude |-> magnitude, timestamp |-> timestamp]),
              timestamp - 10000)]

SensorModel_setMotionStrokeRate(s, rate) == [s EXCEPT !.currentStrokeRate = rate]

SensorModel_recordStrokeDetection(s, timestamp) ==
    [s EXCEPT !.lastStrokeDetection = timestamp]

SensorModel_addSpeedPeak(s, speed, timestamp) ==
    [s EXCEPT !.speedPeaks =
                  After(Append(@, [speed |-> speed, timestamp |-> timestamp]),
                        timestamp - 30000),
              !.lastSpeedPeak = timestamp]

SensorModel_calculateGPSStrokeRate(s) ==
    IF Len(s.speedPeaks) < 2 THEN 0
    ELSE LET oldestPeak == s.speedPeaks[1].timestamp
             newestPeak == s.speedPeaks[Len(s.speedPeaks)].timestamp
             strokeCount == Len(s.speedPeaks) - 1
         IN Min(UnguardedPerMinute(strokeCount, newestPeak - oldestPeak), 40)

SensorModel_setGPSStrokeRate(s, rate) == [s EXCEPT !.gpsStrokeRate = rate]

SensorModel_setStrokeRateMethod(s, method) == [s EXCEPT !.strokeRateMethod = method]

\* getCurrentStrokeRate returning the motion rate whatever the method.
SensorModel_getCurrentStrokeRate_motion(s) == Number(s.currentStrokeRate)

SensorModel_getCurrentStrokeRate(s) ==
    IF s.strokeRateMethod = "gps" THEN Number(s.gpsStrokeRate)
    ELSE IF s.strokeRateMethod = "motion" THEN Number(s.currentStrokeRate)
    ELSE IF s.strokeRateMethod = "both"
         THEN [gps |-> s.gpsStrokeRate, motion |-> s.currentStrokeRate]
    ELSE Number(0)

\* SensorModel.reset() that clears the data and flips the permission.
SensorModel_reset_flip(s) ==
    [s EXCEPT !.accelerationHistory = << >>, !.lastStrokeDetection = 0,
              !.currentStrokeRate = 0, !.gpsStrokeRate = 0,
              !.speedPeaks = << >>, !.lastSpeedPeak = 0,
              !.motionPermission = ~@]

SensorModel_reset(s) ==
    [s EXCEPT !.accelerationHistory = << >>, !.lastStrokeDetection = 0,
              !.currentStrokeRate = 0, !.gpsStrokeRate = 0,
              !.speedPeaks = << >>, !.lastSpeedPeak = 0]

\* getCurrentRate with the two rates of the 'both' object exchanged.
getCurrentRate_swapped(method, motionRate, gpsRate) ==
    IF method = "motion" THEN Number(motionRate)
    ELSE IF method = "gps" THEN Number(gpsRate)
    ELSE IF method = "both" THEN [motion |-> gpsRate, gps |-> motionRate]
    ELSE Number(0)

\* StrokeDetectionService.getCurrentRate(method, motionRate, gpsRate)
getCurrentRate(method, motionRate, gpsRate) ==
    IF method = "motion" THEN Number(motionRate)
    ELSE IF method = "gps" THEN Number(gpsRate)
    ELSE IF method = "both" THEN [motion |-> motionRate, gps |-> gpsRate]
    ELSE Number(0)

\* detectSpeedPeak that asks for 5 samples before the current one.
detectSpeedPeak_prior(speedHistory, currentSpeed, timestamp, lastPeakTime) ==
    /\ Len(speedHistory) - 1 >= MIN_SAMPLES_FOR_DETECTION
    /\ AbovePeakThreshold(currentSpeed, Slice(speedHistory, RECENT_SPEEDS))
    /\ timestamp - lastPeakTime > MIN_TIME_BETWEEN_PEAKS

\* GPSStrokeDetection.detectSpeedPeak: TRUE when a peak object is returned.
detectSpeedPeak(speedHistory, currentSpeed, timestamp, lastPeakTime) ==
    /\ Len(speedHistory) >= MIN_SAMPLES_FOR_DETECTION
    /\ AbovePeakThreshold(currentSpeed, Slice(speedHistory, RECENT_SPEEDS))
    /\ timestamp - lastPeakTime > MIN_TIME_BETWEEN_PEAKS

\* calculateStrokeRateFromPeaks that counts every peak as a stroke.
calculateStrokeRateFromPeaks_peaks(speedPeaks) ==
    IF Len(speedPeaks) < MIN_PEAKS_FOR_RATE THEN 0
    ELSE calculateStrokeRate(Len(speedPeaks),
                             speedPeaks[Len(speedPeaks)].timestamp - speedPeaks[1].timestamp,
                             MAX_GPS_STROKE_RATE)

\* GPSStrokeDetection.calculateStrokeRateFromPeaks(speedPeaks)
calculateStrokeRateFromPeaks(speedPeaks) ==
    IF Len(speedPeaks) < MIN_PEAKS_FOR_RATE THEN 0
    ELSE LET oldestPeak == speedPeaks[1].timestamp
             newestPeak == speedPeaks[Len(speedPeaks)].timestamp
             strokeCount == Len(speedPeaks) - 1
         IN calculateStrokeRate(strokeCount, newestPeak - oldestPeak, MAX_GPS_STROKE_RATE)

MotionControllerFresh ==
    [ hasPermission |-> FALSE, isListening |-> FALSE, isDetecting |-> FALSE,
      handlers |-> 0 ]

GPSControllerFresh == [ watchId |-> FALSE, isTracking |-> FALSE, lastPosition |-> null ]


\* The objects of the modular program as one value.
\* The elements of the page, the announcements of the last display update,
\* the display timers, and the two localStorage keys of the workout
\* history: workouts is the item 'speedcox_workouts' and saved the item
\* 'speedcox_last_workout', null when the key is absent.
uiFresh ==
    [ strokeRate |-> Dashes, summaryAvgStrokeRate |-> null, spoken |-> {},
      saved |-> null, workouts |-> null, updateIntervalId |-> FALSE, intervals |-> 0 ]

\* WorkoutStorage.getWorkouts(): JSON.parse of the stored item, [] without
\* one.  The workouts hold integers and strings, which JSON.stringify and
\* JSON.parse give back as they were.
WorkoutStorage_getWorkouts(u) == IF u.workouts = null THEN << >> ELSE u.workouts[1]

\* saveWorkout that adds the workout at the end of the list.
WorkoutStorage_saveWorkout_push(u, workoutData, t) ==
    LET workout == [id |-> t, avgStrokeRate |-> workoutData.avgStrokeRate,
                    method |-> IF workoutData.method = "" THEN "gps" ELSE workoutData.method]
        pushed == Append(WorkoutStorage_getWorkouts(u), workout)
        workouts == IF Len(pushed) > MAX_WORKOUTS THEN SubSeq(pushed, 1, MAX_WORKOUTS) ELSE pushed
    IN [u EXCEPT !.workouts = << workouts >>, !.saved = << workout >>]

\* WorkoutStorage.saveWorkout(workoutData) at time t, the storage accepting
\* the items; a missing method is "".
WorkoutStorage_saveWorkout(u, workoutData, t) ==
    LET workout == [id |-> t, avgStrokeRate |-> workoutData.avgStrokeRate,
                    method |-> IF workoutData.method = "" THEN "gps" ELSE workoutData.method]
        unshifted == << workout >> \o WorkoutStorage_getWorkouts(u)
        workouts == IF Len(unshifted) > MAX_WORKOUTS THEN SubSeq(unshifted, 1, MAX_WORKOUTS)
                    ELSE unshifted
    IN [u EXCEPT !.workouts = << workouts >>, !.saved = << workout >>]

\* WorkoutStorage.getLastWorkout(): the stored item, or null.
WorkoutStorage_getLastWorkout(u) == u.saved

\* WorkoutStorage.deleteWorkout(workoutId)
WorkoutStorage_deleteWorkout(u, workoutId) ==
    [u EXCEPT !.workouts =
        << SelectSeq(WorkoutStorage_getWorkouts(u), LAMBDA w : w.id # workoutId) >>]

\* WorkoutStorage.clearAllWorkouts()
WorkoutStorage_clearAllWorkouts(u) == [u EXCEPT !.workouts = null, !.saved = null]

\* StorageService.importData(data): data.workouts is null when the member
\* is missing.
StorageService_importData(u, data) ==
    IF data.workouts = null THEN u
    ELSE [u EXCEPT !.workouts = << data.workouts[1] >>]

App(w, s, mc, gc, u) == [WorkoutModel |-> w, SensorModel |-> s, MotionController |-> mc, GPSController |-> gc, ui |-> u]

\* MotionController.setupListeners(): the listener is a fresh closure, one
\* more handler on the window.
MotionController_setupListeners(mc) ==
    IF mc.isListening THEN mc
    ELSE [mc EXCEPT !.isListening = TRUE, !.handlers = @ + 1]

\* MotionController.removeListeners(): removeEventListener is given another
\* fresh closure, which is not registered, and removes no handler.
MotionController_removeListeners(mc) ==
    IF ~mc.isListening THEN mc
    ELSE [mc EXCEPT !.isListening = FALSE]

\* MotionController.requestPermission() with setupListeners() on a grant.
MotionController_requestPermission(mc, granted) ==
    IF granted
    THEN MotionController_setupListeners([mc EXCEPT !.hasPermission = TRUE])
    ELSE [mc EXCEPT !.hasPermission = FALSE]

\* MotionController.startDetection()
MotionController_startDetection(mc) ==
    IF ~mc.hasPermission \/ ~mc.isListening THEN mc
    ELSE [mc EXCEPT !.isDetecting = TRUE]

\* MotionController.stopDetection()
MotionController_stopDetection(mc) == [mc EXCEPT !.isDetecting = FALSE]

\* MotionController.cleanup()
MotionController_cleanup(mc) ==
    MotionController_removeListeners(MotionController_stopDetection(mc))

\* GPSController.startTracking(), geolocation being available.
GPSController_startTracking(gc) ==
    IF gc.isTracking THEN gc
    ELSE [gc EXCEPT !.watchId = TRUE, !.isTracking = TRUE]

\* GPSController.stopTracking()
GPSController_stopTracking(gc) ==
    IF ~gc.isTracking \/ ~gc.watchId THEN gc
    ELSE [gc EXCEPT !.watchId = FALSE, !.isTracking = FALSE, !.lastPosition = null]

\* GPSController.reset()
GPSController_reset(gc) == [gc EXCEPT !.lastPosition = null]

\* isRealMovement(distance, speed, minDistance, minSpeed)
isRealMovement(distance, speed, minDistance, minSpeed) ==
    distance > minDistance /\ speed >= minSpeed

\* app.handleAccelerationData(magnitude, timestamp)
app_handleAccelerationData(a, magnitude, timestamp) ==
    LET s1 == SensorModel_addAcceleration(a.SensorModel, magnitude, timestamp)
        strokeResult ==
            MotionStrokeDetection_detectStroke(s1.accelerationHistory, magnitude, timestamp, s1.lastStrokeDetection)
    IN IF a.MotionController.isDetecting /\ strokeResult.detected
       THEN [a EXCEPT
               !.WorkoutModel.strokeCount = @ + 1,
               !.SensorModel =
                   SensorModel_setMotionStrokeRate(
                       SensorModel_recordStrokeDetection(s1, strokeResult.timestamp),
                       strokeResult.strokeRate)]
       ELSE [a EXCEPT !.SensorModel = s1]

\* MotionController.handleDeviceMotion(event)
MotionController_handleDeviceMotion(a, magnitude, timestamp) ==
    IF ~a.MotionController.hasPermission THEN a
    ELSE app_handleAccelerationData(a, magnitude, timestamp)

\* The window delivers a devicemotion event to each of the n handlers that
\* MotionController registered.
RECURSIVE window_devicemotion(_, _, _, _)
window_devicemotion(a, n, magnitude, timestamp) ==
    IF n = 0 THEN a
    ELSE window_devicemotion(MotionController_handleDeviceMotion(a, magnitude, timestamp),
                             n - 1, magnitude, timestamp)

\* handleGPSUpdate that stores the GPS rate with setMotionStrokeRate.
app_handleGPSUpdate_motionRate(a, data) ==
    LET w == a.WorkoutModel
        speedHistory == Append(w.speedHistory, [speed |-> data.speed, timestamp |-> data.timestamp])
        isPeak == detectSpeedPeak(speedHistory, data.speed, data.timestamp, w.lastSpeedPeak)
        speedPeaks == Append(w.speedPeaks, [speed |-> data.speed, timestamp |-> data.timestamp])
        gpsRate == calculateStrokeRateFromPeaks(speedPeaks)
        w1 == [w EXCEPT !.totalDistance = @ + data.distance,
                        !.speedHistory = speedHistory]
    IN IF isPeak
       THEN [a EXCEPT
               !.WorkoutModel =
                   [w1 EXCEPT !.speedPeaks = speedPeaks,
                              !.lastSpeedPeak = data.timestamp,
                              !.gpsStrokeRate = gpsRate],
               !.SensorModel = SensorModel_setMotionStrokeRate(@, gpsRate)]
       ELSE [a EXCEPT !.WorkoutModel = w1]

\* app.handleGPSUpdate(data)
app_handleGPSUpdate(a, data) ==
    LET w == a.WorkoutModel
        speedHistory == Append(w.speedHistory, [speed |-> data.speed, timestamp |-> data.timestamp])
        isPeak == detectSpeedPeak(speedHistory, data.speed, data.timestamp, w.lastSpeedPeak)
        speedPeaks == Append(w.speedPeaks, [speed |-> data.speed, timestamp |-> data.timestamp])
        gpsRate == calculateStrokeRateFromPeaks(speedPeaks)
        w1 == [w EXCEPT !.totalDistance = @ + data.distance,
                        !.speedHistory = speedHistory]
    IN IF isPeak
       THEN [a EXCEPT
               !.WorkoutModel =
                   [w1 EXCEPT !.speedPeaks = speedPeaks,
                              !.lastSpeedPeak = data.timestamp,
                              !.gpsStrokeRate = gpsRate],
               !.SensorModel = SensorModel_setGPSStrokeRate(@, gpsRate)]
       ELSE [a EXCEPT !.WorkoutModel = w1]

\* The call GPSController.analyzeSpeedForStrokes(speedHistory, speed, ...)
\* that app.handleGPSUpdate makes when GPSController.handlePositionUpdate
\* passes the fix on, or null.  A second watcher delivers the same fix again,
\* with no time elapsed, and that delivery is not passed on.
GPSController_analysed(a, currentPos) ==
    IF a.GPSController.lastPosition = null THEN null
    ELSE LET last == a.GPSController.lastPosition[1]
             distance == calculateDistance(last, currentPos)
             timeDiff == currentPos.timestamp - last.timestamp
             speed == IF timeDiff > 0 THEN SpeedOf(distance, timeDiff) ELSE 0
         IN IF isRealMovement(distance, speed, MIN_DISTANCE, MIN_SPEED)
            THEN << [speed |-> speed, distance |-> distance] >>
            ELSE null

\* handlePositionUpdate that takes a fix with no time elapsed for one a
\* second after the previous fix.
GPSController_handlePositionUpdate_noElapsed(a, currentPos) ==
    LET last == a.GPSController.lastPosition[1]
        distance == calculateDistance(last, currentPos)
        timeDiff == currentPos.timestamp - last.timestamp
        speed == IF timeDiff > 0 THEN SpeedOf(distance, timeDiff)
                 ELSE IF timeDiff = 0 THEN SpeedOf(distance, 1000) ELSE 0
        data == [distance |-> distance, speed |-> speed,
                 timestamp |-> currentPos.timestamp]
        handled ==
            IF a.GPSController.lastPosition = null THEN a
            ELSE IF isRealMovement(distance, speed, MIN_DISTANCE, MIN_SPEED)
                 THEN app_handleGPSUpdate(a, data)
                 ELSE a
    IN [handled EXCEPT !.GPSController.lastPosition = << currentPos >>]

\* GPSController.handlePositionUpdate(position)
GPSController_handlePositionUpdate(a, currentPos) ==
    LET last == a.GPSController.lastPosition[1]
        distance == calculateDistance(last, currentPos)
        timeDiff == currentPos.timestamp - last.timestamp
        speed == IF timeDiff > 0 THEN SpeedOf(distance, timeDiff) ELSE 0
        data == [distance |-> distance, speed |-> speed,
                 timestamp |-> currentPos.timestamp]
        handled ==
            IF a.GPSController.lastPosition = null THEN a
            ELSE IF isRealMovement(distance, speed, MIN_DISTANCE, MIN_SPEED)
                 THEN app_handleGPSUpdate(a, data)
                 ELSE a
    IN [handled EXCEPT !.GPSController.lastPosition = << currentPos >>]

\* app.startDisplayUpdates(): intervals counts the setInterval timers that
\* are not cleared, updateIntervalId is whether the app holds the id of one.
app_startDisplayUpdates(a) ==
    [a EXCEPT !.ui.updateIntervalId = TRUE, !.ui.intervals = @ + 1]

\* app.stopDisplayUpdates()
app_stopDisplayUpdates(a) ==
    IF a.ui.updateIntervalId
    THEN [a EXCEPT !.ui.updateIntervalId = FALSE, !.ui.intervals = @ - 1]
    ELSE a

\* app.startWorkout() at time t
app_startWorkout(a, t) ==
    LET method == a.SensorModel.strokeRateMethod
        useGPS == method \in {"gps", "both"}
        useMotion == method \in {"motion", "both"}
    IN app_startDisplayUpdates(
         [a EXCEPT
            !.WorkoutModel = WorkoutModel_start(@, useGPS, t),
            !.GPSController = IF useGPS THEN GPSController_startTracking(@) ELSE @,
            !.MotionController =
                IF useMotion /\ @.hasPermission
                THEN MotionController_startDetection(@) ELSE @])

\* WorkoutModel.getElapsedTime() at time t, in ms
WorkoutModel_getElapsedTime(w, t) == IF w.startTime = null THEN 0 ELSE t - w.startTime[1]

\* WorkoutModel.getCurrentSplit() !== null
WorkoutModel_hasCurrentSplit(w) == Len(w.speedHistory) > 0 /\ SumSpeed(w.speedHistory) > 0

\* shouldAnnounce without the test that disables announcements.
shouldAnnounce_enabled(lastAnnounceTime, currentTime, interval) ==
    currentTime - lastAnnounceTime >= interval

\* AudioController.shouldAnnounce(lastAnnounceTime, currentTime, interval)
shouldAnnounce(lastAnnounceTime, currentTime, interval) ==
    interval > 0 /\ currentTime - lastAnnounceTime >= interval

\* AudioController.announceStrokeRate(strokeRate, method) speaks.
announceStrokeRate_speaks(strokeRate, method) ==
    IF method = "both" THEN strokeRate.gps > 0 \/ strokeRate.motion > 0
    ELSE strokeRate.number # 0

\* app.updateStrokeRateDisplay()
app_updateStrokeRateDisplay(a) ==
    LET method == a.SensorModel.strokeRateMethod
        gpsRate == a.SensorModel.gpsStrokeRate
        motionRate == a.SensorModel.currentStrokeRate
    IN [a EXCEPT !.ui.strokeRate =
           IF method = "gps" THEN StrokeRateText("gps", Shown(gpsRate), null)
           ELSE IF method = "motion" THEN StrokeRateText("motion", null, Shown(motionRate))
           ELSE StrokeRateText("both", Shown(gpsRate), Shown(motionRate))]

\* app.handleAudioAnnouncements(elapsed) at time t: the two intervals are the
\* values of the dropdowns, in ms; spoken collects the announcements of this
\* call.
app_handleAudioAnnouncements(a, elapsed, t, strokeRateInterval, splitInterval) ==
    LET w == a.WorkoutModel
        method == a.SensorModel.strokeRateMethod
        strokeRate == SensorModel_getCurrentStrokeRate(a.SensorModel)
        rate == /\ shouldAnnounce(w.lastStrokeRateAnnounce, elapsed, strokeRateInterval)
                /\ method = "both" \/ strokeRate.number # 0
        split == /\ shouldAnnounce(w.lastSplitAnnounce, elapsed, splitInterval)
                 /\ WorkoutModel_hasCurrentSplit(w)
    IN [a EXCEPT
          !.WorkoutModel.lastStrokeRateAnnounce =
              IF rate THEN WorkoutModel_getElapsedTime(w, t) ELSE @,
          !.WorkoutModel.lastSplitAnnounce =
              IF split THEN WorkoutModel_getElapsedTime(w, t) ELSE @,
          !.ui.spoken =
              (IF rate /\ announceStrokeRate_speaks(strokeRate, method)
               THEN {"strokeRate"} ELSE {})
              \cup (IF split THEN {"split"} ELSE {})]

\* app.updateDisplay() at time t
app_updateDisplay(a, t, strokeRateInterval, splitInterval) ==
    IF ~a.WorkoutModel.isRunning THEN a
    ELSE app_handleAudioAnnouncements(
             app_updateStrokeRateDisplay(a),
             WorkoutModel_getElapsedTime(a.WorkoutModel, t), t,
             strokeRateInterval, splitInterval)

\* The avgStrokeRate that app.showWorkoutSummary() and app.saveWorkout()
\* compute.
app_avgStrokeRate(a) ==
    LET method == a.SensorModel.strokeRateMethod
        gps == IF method \in {"gps", "both"} THEN a.WorkoutModel.gpsStrokeRate ELSE 0
        motionRate == a.SensorModel.currentStrokeRate
    IN IF method \in {"motion", "both"}
       THEN IF motionRate > 0 THEN motionRate ELSE gps
       ELSE gps

\* app.showWorkoutSummary()
app_showWorkoutSummary(a) ==
    [a EXCEPT !.ui.summaryAvgStrokeRate = Shown(app_avgStrokeRate(a))]

\* app.saveWorkout(), the storage being available
app_saveWorkout(a, t) ==
    [a EXCEPT !.ui = WorkoutStorage_saveWorkout(@,
                         [avgStrokeRate |-> app_avgStrokeRate(a),
                          method |-> a.SensorModel.strokeRateMethod], t)]

\* app.initializeUI()
app_initializeUI(a) == [a EXCEPT !.ui.strokeRate = Dashes]

\* app.stopWorkout()
app_stopWorkout(a, t) ==
    app_saveWorkout(app_showWorkoutSummary(app_stopDisplayUpdates(
        [a EXCEPT !.WorkoutModel = WorkoutModel_stop(@),
                  !.GPSController = GPSController_stopTracking(@),
                  !.MotionController = MotionController_stopDetection(@)])), t)

\* app.resetWorkout()
app_resetWorkout(a, t) ==
    LET stopped == IF a.WorkoutModel.isRunning THEN app_stopWorkout(a, t) ELSE a
    IN app_initializeUI(
           [stopped EXCEPT !.WorkoutModel = WorkoutModel_reset(@),
                           !.SensorModel = SensorModel_reset(@),
                           !.GPSController = GPSController_reset(@)])

\* app.changeStrokeRateMethod()
app_changeStrokeRateMethod(a, method) ==
    [a EXCEPT !.SensorModel = SensorModel_setStrokeRateMethod(@, method)]


(***************************************************************************)
(* The workout data object of src/unnamed/part_000, lines 350-516.        *)
(***************************************************************************)
WorkoutDataFresh ==
    [ isRunning |-> FALSE, startTime |-> null, totalDistance |-> 0,
      lastPosition |-> null, speedHistory |-> << >>, strokeCount |-> 0,
      strokeTimes |-> << >>, lastStrokeTime |-> 0, watchId |-> FALSE,
      lastStrokeRateAnnounce |-> 0, lastSplitAnnounce |-> 0, logCounter |-> 0 ]

WorkoutData_start(d, t) ==
    [d EXCEPT !.isRunning = TRUE, !.startTime = << t >>,
              !.lastStrokeRateAnnounce = 0, !.lastSplitAnnounce = 0]

WorkoutData_stop(d) == [d EXCEPT !.isRunning = FALSE]

WorkoutData_reset(d) ==
    [d EXCEPT !.isRunning = FALSE, !.startTime = null, !.totalDistance = 0,
              !.lastPosition = null, !.speedHistory = << >>,
              !.strokeCount = 0, !.strokeTimes = << >>, !.lastStrokeTime = 0,
              !.watchId = FALSE, !.lastStrokeRateAnnounce = 0,
              !.lastSplitAnnounce = 0, !.logCounter = 0]

WorkoutData_addSpeed(d, speed, timestamp) ==
    [d EXCEPT !.speedHistory =
        After(Append(@, [speed |-> speed, timestamp |-> timestamp]),
              timestamp - 30000)]

WorkoutData_addStroke(d, rate, timestamp) ==
    [d EXCEPT !.strokeCount = @ + 1,
              !.strokeTimes =
                  After(Append(@, [rate |-> rate, timestamp |-> timestamp]),
                        timestamp - 120000)]

(***************************************************************************)
(* The environment: the user's operations and the sensor streams.  A      *)
(* behaviour runs one program on one stream.  Operations come first; the  *)
(* stream then delivers a regular stretch of samples, and after it a few  *)
(* samples of any magnitude and spacing, mixed with start, stop and reset.*)
(***************************************************************************)
Streams == {"motion", "gps"}
Clients == {"sensor", "workout"}

EnvInit(stream, rise) ==
    [stream |-> stream, phase |-> "setup", ops |-> 0, steady |-> 0,
     rise |-> rise, free |-> 0, x |-> 0, n |-> 0]

\* A motion stream: free, or the sawtooth.
MotionStream == env.stream \in {"motion", "sawtooth"}

SteadyLimit ==
    IF env.stream = "motion" THEN MaxSteady
    ELSE IF env.stream = "sawtooth" THEN MaxSawtooth
    ELSE MaxFixes

SteadyEnabled == env.phase \in {"setup", "steady"} /\ env.steady < SteadyLimit

FreeEnabled ==
    /\ env.stream \in Streams
    /\ env.free < MaxBurst
    /\ \/ env.phase = "free"
       \/ env.phase = "steady" /\ env.steady >= SteadyLimit - 1
       \/ env.phase = "steady" /\ env.stream = "gps" /\ env.steady >= SteadyLimit - 2

SetupEnabled == env.phase = "setup" /\ env.ops < MaxSetup

\* An operation of the user: any time before the stream, or among the
\* free samples.
OpEnabled == SetupEnabled \/ FreeEnabled

EnvAfterOp ==
    IF env.phase = "setup" THEN [env EXCEPT !.ops = @ + 1]
    ELSE [env EXCEPT !.phase = "free", !.free = @ + 1]

\* The next sample of the regular stretch.  The sawtooth is Baseline with
\* every env.n-th sample at Baseline + SawtoothRise, spikes 1000 ms apart.
SteadyMagnitude ==
    IF env.stream = "sawtooth"
    THEN IF (env.steady + 1) % env.n = 0 THEN Baseline + SawtoothRise ELSE Baseline
    ELSE IF env.rise /\ env.steady + 1 >= RiseAt THEN Spike ELSE Baseline

SteadyTick == IF env.stream = "sawtooth" THEN 1000 \div env.n ELSE MotionTick

\* The motion events the stream can deliver next.
MotionInputs ==
    (IF SteadyEnabled
     THEN {[magnitude |-> SteadyMagnitude, dt |-> SteadyTick,
            env |-> [env EXCEPT !.phase = "steady", !.steady = @ + 1]]}
     ELSE {})
    \cup
    (IF FreeEnabled
     THEN {[magnitude |-> m, dt |-> dt,
            env |-> [env EXCEPT !.phase = "free", !.free = @ + 1]] : m \in Magnitudes, dt \in MotionSteps}
     ELSE {})

\* The GPS fixes the stream can deliver next.
GPSInputs ==
    (IF SteadyEnabled
     THEN {[position |-> [x |-> env.x + SteadyMove, timestamp |-> now + GPSTick],
            env |-> [env EXCEPT !.phase = "steady", !.steady = @ + 1, !.x = @ + SteadyMove]]}
     ELSE {})
    \cup
    (IF FreeEnabled
     THEN {[position |-> [x |-> env.x + d, timestamp |-> now + dt],
            env |-> [env EXCEPT !.phase = "free", !.free = @ + 1, !.x = @ + d]] : d \in Moves, dt \in GPSSteps}
     ELSE {})

\* The operation of a step: its name, the name of the one before it, for a
\* reset whether it found anything to clear, and for a position fix the
\* sample the handler passed to the peak detector, if it passed one.
Op(name) == [name |-> name, prev |-> lastOp.name, dirty |-> FALSE, prevDirty |-> lastOp.dirty, analysed |-> null]

ResetOp(dirty) == [name |-> "reset", prev |-> lastOp.name, dirty |-> dirty, prevDirty |-> lastOp.dirty, analysed |-> null]

Init ==
    /\ program \in Programs
    /\ now = Epoch
    /\ env \in {EnvInit(stream, rise) : stream \in Streams \cup Clients, rise \in BOOLEAN}
    /\ (env.stream \in Clients) = (program = "api")
    /\ env.rise => env.stream = "motion"
    /\ lastOp = [name |-> "load", prev |-> "load", dirty |-> FALSE, prevDirty |-> FALSE, analysed |-> null]
    /\ legacy = legacyFresh
    /\ SensorsModel = SensorsModelFresh
    /\ WorkoutModel = WorkoutModelFresh
    /\ SensorModel = SensorModelFresh
    /\ MotionController = MotionControllerFresh
    /\ GPSController = GPSControllerFresh
    /\ WorkoutData = WorkoutDataFresh
    /\ query = null
    /\ ui = uiFresh

(***************************************************************************)
(* Steps of the legacy program.                                           *)
(***************************************************************************)
legacyOthers == << program, query, ui, SensorsModel, WorkoutModel, SensorModel, MotionController, GPSController, WorkoutData >>

LegacyStep(name, g) ==
    /\ legacy' = g
    /\ env' = EnvAfterOp
    /\ lastOp' = Op(name)
    /\ UNCHANGED << now, legacyOthers >>

LegacyRequestMotionPermission ==
    /\ program = "legacy" /\ SetupEnabled
    /\ \E granted \in BOOLEAN :
          LegacyStep("requestMotionPermission", legacy_requestMotionPermission(legacy, granted))

LegacyChangeStrokeRateMethod ==
    /\ program = "legacy" /\ SetupEnabled
    /\ \E method \in Methods :
          LegacyStep("changeStrokeRateMethod", legacy_changeStrokeRateMethod(legacy, method))

LegacyStartWorkout ==
    /\ program = "legacy" /\ OpEnabled
    /\ LegacyStep("startWorkout", legacy_startWorkout(legacy, now))

LegacyStopWorkout ==
    /\ program = "legacy" /\ OpEnabled
    /\ LegacyStep("stopWorkout", legacy_stopWorkout(legacy))

LegacyResetWorkout ==
    /\ program = "legacy" /\ OpEnabled
    /\ legacy' = legacy_resetWorkout(legacy)
    /\ env' = EnvAfterOp
    /\ lastOp' = ResetOp(legacy' # legacy)
    /\ UNCHANGED << now, legacyOthers >>

\* The timer set by updateDisplay() runs it again.
LegacyUpdateDisplay ==
    /\ program = "legacy" /\ legacy.isRunning /\ legacy.timeouts > 0
    /\ \E strokeRateInterval \in AnnounceIntervals, splitInterval \in AnnounceIntervals :
          legacy' = legacy_updateDisplay([legacy EXCEPT !.timeouts = @ - 1], now,
                                         strokeRateInterval, splitInterval)
    /\ lastOp' = Op("updateDisplay")
    /\ UNCHANGED << now, env, legacyOthers >>

\* A timer set by updateDisplay() runs it after the workout was stopped.
LegacyTimeoutStopped ==
    /\ program = "legacy" /\ ~legacy.isRunning /\ legacy.timeouts > 0
    /\ legacy' = legacy_updateDisplay([legacy EXCEPT !.timeouts = @ - 1], now, 0, 0)
    /\ lastOp' = Op("timeout")
    /\ UNCHANGED << now, env, legacyOthers >>

\* A devicemotion event reaches the registered listener.
LegacyDeviceMotion ==
    /\ program = "legacy" /\ MotionStream /\ legacy.listening
    /\ \E in \in MotionInputs :
          /\ now' = now + in.dt
          /\ env' = in.env
          /\ legacy' = legacy_handleDeviceMotion(legacy, in.magnitude, now')
    /\ lastOp' = Op("handleDeviceMotion")
    /\ UNCHANGED legacyOthers

\* The position watch delivers a fix.
LegacyPosition ==
    /\ program = "legacy" /\ env.stream = "gps" /\ legacy.watchId
    /\ \E in \in GPSInputs :
          /\ now' = in.position.timestamp
          /\ env' = in.env
          /\ legacy' = legacy_updatePosition(legacy, in.position)
          /\ lastOp' = [Op("updatePosition") EXCEPT
                           !.analysed = legacy_analysed(legacy, in.position)]
    /\ UNCHANGED legacyOthers

(***************************************************************************)
(* Steps of the class program: a SensorsModel on the motion stream, a     *)
(* WorkoutModel on the GPS stream.                                        *)
(***************************************************************************)
sensorsOthers == << program, query, ui, legacy, WorkoutModel, SensorModel, MotionController, GPSController, WorkoutData >>

workoutOthers == << program, query, ui, legacy, SensorsModel, SensorModel, MotionController, GPSController, WorkoutData >>

SensorsStep(name, s) ==
    /\ SensorsModel' = s
    /\ env' = EnvAfterOp
    /\ lastOp' = IF name = "reset" THEN ResetOp(s # SensorsModel) ELSE Op(name)
    /\ UNCHANGED << now, sensorsOthers >>

WorkoutStep(name, w) ==
    /\ WorkoutModel' = w
    /\ env' = EnvAfterOp
    /\ lastOp' = IF name = "reset" THEN ResetOp(w # WorkoutModel) ELSE Op(name)
    /\ UNCHANGED << now, workoutOthers >>

ClassRequestPermission ==
    /\ program = "class" /\ MotionStream /\ SetupEnabled
    /\ \E granted \in BOOLEAN :
          SensorsStep("requestPermission", SensorsModel_requestPermission(SensorsModel, granted))

ClassSensorsReset ==
    /\ program = "class" /\ MotionStream /\ OpEnabled
    /\ SensorsStep("reset", SensorsModel_reset(SensorsModel))

ClassSensorsCleanup ==
    /\ program = "class" /\ MotionStream /\ OpEnabled
    /\ SensorsStep("cleanup", SensorsModel_cleanup(SensorsModel))

ClassRemoveListeners ==
    /\ program = "class" /\ MotionStream /\ OpEnabled
    /\ SensorsStep("removeListeners", SensorsModel_removeListeners(SensorsModel))

\* A devicemotion event reaches the registered listener.
ClassDeviceMotion ==
    /\ program = "class" /\ MotionStream /\ SensorsModel.isListening
    /\ \E in \in MotionInputs :
          /\ now' = now + in.dt
          /\ env' = in.env
          /\ SensorsModel' = SensorsModel_handleDeviceMotion(SensorsModel, in.magnitude, now')
    /\ lastOp' = Op("handleDeviceMotion")
    /\ UNCHANGED sensorsOthers

ClassStart ==
    /\ program = "class" /\ env.stream = "gps" /\ OpEnabled
    /\ \E useGPS \in BOOLEAN :
          WorkoutStep("start", WorkoutModel_start(WorkoutModel, useGPS, now))

ClassStop ==
    /\ program = "class" /\ env.stream = "gps" /\ OpEnabled
    /\ WorkoutStep("stop", WorkoutModel_stop(WorkoutModel))

ClassReset ==
    /\ program = "class" /\ env.stream = "gps" /\ OpEnabled
    /\ WorkoutStep("reset", WorkoutModel_reset(WorkoutModel))

\* The position watch delivers a fix.
ClassPosition ==
    /\ program = "class" /\ env.stream = "gps" /\ WorkoutModel.watchId
    /\ \E in \in GPSInputs :
          /\ now' = in.position.timestamp
          /\ env' = in.env
          /\ WorkoutModel' = WorkoutModel_updatePosition(WorkoutModel, in.position)
          /\ lastOp' = [Op("updatePosition") EXCEPT
                           !.analysed = WorkoutModel_analysed(WorkoutModel, in.position)]
    /\ UNCHANGED workoutOthers

(***************************************************************************)
(* Steps of the modular program.                                          *)
(***************************************************************************)
TheApp == App(WorkoutModel, SensorModel, MotionController, GPSController, ui)

appOthers == << program, query, legacy, SensorsModel, WorkoutData >>

AppBecomes(a) ==
    /\ WorkoutModel' = a.WorkoutModel
    /\ SensorModel' = a.SensorModel
    /\ MotionController' = a.MotionController
    /\ GPSController' = a.GPSController
    /\ ui' = a.ui

AppStep(name, a) ==
    /\ AppBecomes(a)
    /\ env' = EnvAfterOp
    /\ lastOp' = IF name = "reset" THEN ResetOp(a # TheApp) ELSE Op(name)
    /\ UNCHANGED << now, appOthers >>

ModularEnableMotionSensors ==
    /\ program = "modular" /\ SetupEnabled
    /\ \E granted \in BOOLEAN :
          AppStep("enableMotionSensors",
                  [TheApp EXCEPT !.MotionController = MotionController_requestPermission(@, granted)])

ModularChangeStrokeRateMethod ==
    /\ program = "modular" /\ SetupEnabled
    /\ \E method \in Methods :
          AppStep("changeStrokeRateMethod", app_changeStrokeRateMethod(TheApp, method))

ModularStartWorkout ==
    /\ program = "modular" /\ OpEnabled
    /\ AppStep("startWorkout", app_startWorkout(TheApp, now))

ModularStopWorkout ==
    /\ program = "modular" /\ OpEnabled
    /\ AppStep("stopWorkout", app_stopWorkout(TheApp, now))

ModularResetWorkout ==
    /\ program = "modular" /\ OpEnabled
    /\ AppStep("reset", app_resetWorkout(TheApp, now))

\* The interval timer of startDisplayUpdates() runs app.updateDisplay().
ModularUpdateDisplay ==
    /\ program = "modular" /\ WorkoutModel.isRunning /\ ui.intervals > 0
    /\ \E strokeRateInterval \in AnnounceIntervals, splitInterval \in AnnounceIntervals :
          AppBecomes(app_updateDisplay(TheApp, now, strokeRateInterval, splitInterval))
    /\ lastOp' = Op("updateDisplay")
    /\ UNCHANGED << now, env, appOthers >>

\* An interval timer that was not cleared runs app.updateDisplay() after the
\* workout was stopped.
ModularIntervalStopped ==
    /\ program = "modular" /\ ~WorkoutModel.isRunning /\ ui.intervals > 0
    /\ AppBecomes(app_updateDisplay(TheApp, now, 0, 0))
    /\ lastOp' = Op("timeout")
    /\ UNCHANGED << now, env, appOthers >>

\* A devicemotion event reaches the listener MotionController registered.
ModularDeviceMotion ==
    /\ program = "modular" /\ MotionStream /\ MotionController.handlers > 0
    /\ \E in \in MotionInputs :
          /\ now' = now + in.dt
          /\ env' = in.env
          /\ AppBecomes(window_devicemotion(TheApp, MotionController.handlers,
                                            in.magnitude, now'))
    /\ lastOp' = Op("handleDeviceMotion")
    /\ UNCHANGED appOthers

\* MotionController.removeListeners() and MotionController.cleanup()
ModularRemoveListeners ==
    /\ program = "modular" /\ SetupEnabled
    /\ AppStep("removeListeners",
               [TheApp EXCEPT !.MotionController = MotionController_removeListeners(@)])

ModularCleanup ==
    /\ program = "modular" /\ SetupEnabled
    /\ AppStep("cleanup",
               [TheApp EXCEPT !.MotionController = MotionController_cleanup(@)])

\* A fix is delivered once by each position watch: the one WorkoutModel.start
\* registered and the one GPSController.startTracking registered both call
\* GPSController.handlePositionUpdate.
DeliverFix(a, position) ==
    LET first == IF a.WorkoutModel.watchId THEN GPSController_handlePositionUpdate(a, position) ELSE a
    IN IF a.GPSController.watchId THEN GPSController_handlePositionUpdate(first, position) ELSE first

ModularPosition ==
    /\ program = "modular" /\ env.stream = "gps"
    /\ WorkoutModel.watchId \/ GPSController.watchId
    /\ \E in \in GPSInputs :
          /\ now' = in.position.timestamp
          /\ env' = in.env
          /\ AppBecomes(DeliverFix(TheApp, in.position))
          /\ lastOp' = [Op("handlePositionUpdate") EXCEPT
                           !.analysed = GPSController_analysed(TheApp, in.position)]
    /\ UNCHANGED appOthers

(***************************************************************************)
(* A client calling the methods of SensorModel (sensors.js) or of the     *)
(* workout data object directly; now is the latest timestamp passed, and  *)
(* addAcceleration is also called with a timestamp before it.             *)
(***************************************************************************)
CallSteps == {0, 1000, 40000}
CallSpeeds == {4000, 5000}
CallMethods == Methods \cup {"unknown"}

CallEnabled(client) == program = "api" /\ env.stream = client /\ env.ops < MaxCalls

sensorOthers == << program, query, ui, legacy, SensorsModel, WorkoutModel, MotionController, GPSController, WorkoutData >>

dataOthers == << program, query, ui, legacy, SensorsModel, WorkoutModel, SensorModel, MotionController, GPSController >>

SensorCall(name, s, t) ==
    /\ SensorModel' = s
    /\ now' = t
    /\ env' = [env EXCEPT !.ops = @ + 1]
    /\ lastOp' = IF name = "reset" THEN ResetOp(s # SensorModel) ELSE Op(name)
    /\ UNCHANGED sensorOthers

DataCall(name, d, t) ==
    /\ WorkoutData' = d
    /\ now' = t
    /\ env' = [env EXCEPT !.ops = @ + 1]
    /\ lastOp' = IF name = "reset" THEN ResetOp(d # WorkoutData) ELSE Op(name)
    /\ UNCHANGED dataOthers

ApiEnableMotion ==
    CallEnabled("sensor") /\ SensorCall("enableMotion", SensorModel_enableMotion(SensorModel), now)

ApiDisableMotion ==
    CallEnabled("sensor") /\ SensorCall("disableMotion", SensorModel_disableMotion(SensorModel), now)

ApiAddAcceleration ==
    /\ CallEnabled("sensor")
    /\ \E m \in {Baseline, Spike, NaNMagnitude}, dt \in CallSteps \cup {0 - MotionTick} :
          SensorCall("addAcceleration", SensorModel_addAcceleration(SensorModel, m, now + dt),
                     Max(now, now + dt))

ApiSetMotionStrokeRate ==
    /\ CallEnabled("sensor")
    /\ \E rate \in Rates :
          SensorCall("setMotionStrokeRate", SensorModel_setMotionStrokeRate(SensorModel, rate), now)

ApiRecordStrokeDetection ==
    CallEnabled("sensor") /\ SensorCall("recordStrokeDetection", SensorModel_recordStrokeDetection(SensorModel, now), now)

ApiAddSpeedPeak ==
    /\ CallEnabled("sensor")
    /\ \E speed \in CallSpeeds, dt \in CallSteps :
          SensorCall("addSpeedPeak", SensorModel_addSpeedPeak(SensorModel, speed, now + dt), now + dt)

\* setGPSStrokeRate(calculateGPSStrokeRate()), or with a rate of the caller.
ApiSetGPSStrokeRate ==
    /\ CallEnabled("sensor")
    /\ \E rate \in Rates \cup {SensorModel_calculateGPSStrokeRate(SensorModel)} :
          SensorCall("setGPSStrokeRate", SensorModel_setGPSStrokeRate(SensorModel, rate), now)

ApiSetStrokeRateMethod ==
    /\ CallEnabled("sensor")
    /\ \E method \in CallMethods :
          SensorCall("setStrokeRateMethod", SensorModel_setStrokeRateMethod(SensorModel, method), now)

ApiSensorReset ==
    CallEnabled("sensor") /\ SensorCall("reset", SensorModel_reset(SensorModel), now)

ApiWorkoutStart ==
    CallEnabled("workout") /\ DataCall("start", WorkoutData_start(WorkoutData, now), now)

ApiWorkoutStop ==
    CallEnabled("workout") /\ DataCall("stop", WorkoutData_stop(WorkoutData), now)

ApiWorkoutReset ==
    CallEnabled("workout") /\ DataCall("reset", WorkoutData_reset(WorkoutData), now)

ApiAddSpeed ==
    /\ CallEnabled("workout")
    /\ \E speed \in CallSpeeds, dt \in CallSteps :
          DataCall("addSpeed", WorkoutData_addSpeed(WorkoutData, speed, now + dt), now + dt)

ApiAddStroke ==
    /\ CallEnabled("workout")
    /\ \E rate \in Rates, dt \in CallSteps :
          DataCall("addStroke", WorkoutData_addStroke(WorkoutData, rate, now + dt), now + dt)

Next ==
    \/ LegacyRequestMotionPermission
    \/ LegacyChangeStrokeRateMethod
    \/ LegacyStartWorkout
    \/ LegacyStopWorkout
    \/ LegacyResetWorkout
    \/ LegacyDeviceMotion
    \/ LegacyPosition
    \/ ClassRequestPermission
    \/ ClassSensorsReset
    \/ ClassSensorsCleanup
    \/ ClassDeviceMotion
    \/ ClassStart
    \/ ClassStop
    \/ ClassReset
    \/ ClassPosition
    \/ ModularEnableMotionSensors
    \/ ModularChangeStrokeRateMethod
    \/ ModularStartWorkout
    \/ ModularStopWorkout
    \/ ModularResetWorkout
    \/ ModularDeviceMotion
    \/ ModularPosition
    \/ ApiEnableMotion
    \/ ApiDisableMotion
    \/ ApiAddAcceleration
    \/ ApiSetMotionStrokeRate
    \/ ApiRecordStrokeDetection
    \/ ApiAddSpeedPeak
    \/ ApiSetGPSStrokeRate
    \/ ApiSetStrokeRateMethod
    \/ ApiSensorReset
    \/ ApiWorkoutStart
    \/ ApiWorkoutStop
    \/ ApiWorkoutReset
    \/ ApiAddSpeed
    \/ ApiAddStroke

Spec == Init /\ [][Next]_vars

(***************************************************************************)
(* The sawtooth: the same programs on a synthetic stream, Baseline with a *)
(* spike of Baseline + SawtoothRise every 1000 ms.                        *)
(***************************************************************************)
InitSawtooth ==
    /\ program \in {"legacy", "class", "modular"}
    /\ now = Epoch
    /\ env \in {[EnvInit("sawtooth", FALSE) EXCEPT !.n = n] : n \in SamplesPerSpike}
    /\ lastOp = [name |-> "load", prev |-> "load", dirty |-> FALSE, prevDirty |-> FALSE, analysed |-> null]
    /\ legacy = legacyFresh
    /\ SensorsModel = SensorsModelFresh
    /\ WorkoutModel = WorkoutModelFresh
    /\ SensorModel = SensorModelFresh
    /\ MotionController = MotionControllerFresh
    /\ GPSController = GPSControllerFresh
    /\ WorkoutData = WorkoutDataFresh
    /\ query = null
    /\ ui = uiFresh

NextSawtooth ==
    \/ LegacyRequestMotionPermission
    \/ LegacyStartWorkout
    \/ LegacyDeviceMotion
    \/ ClassRequestPermission
    \/ ClassDeviceMotion
    \/ ModularEnableMotionSensors
    \/ ModularChangeStrokeRateMethod
    \/ ModularStartWorkout
    \/ ModularDeviceMotion

SpecSawtooth == InitSawtooth /\ [][NextSawtooth]_vars

(***************************************************************************)
(* The rate selectors, called on any method and any pair of rates.        *)
(***************************************************************************)
InitSelect ==
    /\ program = "api"
    /\ now = Epoch
    /\ env = EnvInit("sensor", FALSE)
    /\ lastOp = [name |-> "load", prev |-> "load", dirty |-> FALSE, prevDirty |-> FALSE, analysed |-> null]
    /\ legacy = legacyFresh
    /\ SensorsModel = SensorsModelFresh
    /\ WorkoutModel = WorkoutModelFresh
    /\ SensorModel = SensorModelFresh
    /\ MotionController = MotionControllerFresh
    /\ GPSController = GPSControllerFresh
    /\ WorkoutData = WorkoutDataFresh
    /\ query = null
    /\ ui = uiFresh

\* StrokeDetectionService.getCurrentRate(method, motionRate, gpsRate)
SelectGetCurrentRate ==
    /\ query = null
    /\ \E method \in CallMethods, motionRate \in Rates, gpsRate \in Rates :
          query' = << [fn |-> "getCurrentRate", method |-> method, motionRate |-> motionRate,
                       gpsRate |-> gpsRate, result |-> getCurrentRate(method, motionRate, gpsRate)] >>
    /\ lastOp' = Op("getCurrentRate")
    /\ UNCHANGED << program, now, env, ui, legacy, SensorsModel, WorkoutModel, SensorModel, MotionController, GPSController, WorkoutData >>

\* SensorModel.getCurrentStrokeRate()
SelectGetCurrentStrokeRate ==
    /\ query = null
    /\ query' = << [fn |-> "getCurrentStrokeRate", method |-> SensorModel.strokeRateMethod,
                     motionRate |-> SensorModel.currentStrokeRate, gpsRate |-> SensorModel.gpsStrokeRate,
                     result |-> SensorModel_getCurrentStrokeRate(SensorModel)] >>
    /\ lastOp' = Op("getCurrentStrokeRate")
    /\ UNCHANGED << program, now, env, ui, legacy, SensorsModel, WorkoutModel, SensorModel, MotionController, GPSController, WorkoutData >>

\* The setters that store what getCurrentStrokeRate reads.
SelectStore ==
    /\ query = null /\ lastOp.name = "load"
    /\ \E method \in CallMethods, motionRate \in Rates, gpsRate \in Rates :
          SensorModel' = SensorModel_setGPSStrokeRate(
                             SensorModel_setMotionStrokeRate(
                                 SensorModel_setStrokeRateMethod(SensorModel, method),
                                 motionRate),
                             gpsRate)
    /\ lastOp' = Op("store")
    /\ UNCHANGED << program, now, env, ui, legacy, SensorsModel, WorkoutModel, MotionController, GPSController, WorkoutData, query >>

NextSelect == SelectGetCurrentRate \/ SelectGetCurrentStrokeRate \/ SelectStore

SpecSelect == InitSelect /\ [][NextSelect]_vars

(***************************************************************************)
(* A workout that has had both streams: the program, configured and       *)
(* started at Epoch, has handled a stretch of devicemotion events and     *)
(* then a stretch of position fixes; the display timer, stop, reset and   *)
(* more fixes follow.                                                     *)
(***************************************************************************)
\* The i-th devicemotion event of the stretch.
RowedMagnitude(i, rise) == IF rise /\ i >= RiseAt THEN Spike ELSE Baseline

\* The moves of the stretch of fixes, two of them faster when peaks.
RowedMoves(peaks) ==
    [i \in 1..MaxFixes |-> SteadyMove] \o (IF peaks THEN << 6, SteadyMove, 6 >> ELSE << >>)

RECURSIVE legacy_afterMotion(_, _, _)
legacy_afterMotion(g, i, rise) ==
    IF i > MaxSteady \/ ~g.listening THEN g
    ELSE legacy_afterMotion(
             legacy_handleDeviceMotion(g, RowedMagnitude(i, rise), Epoch + i * MotionTick),
             i + 1, rise)

RECURSIVE legacy_afterFixes(_, _, _, _)
legacy_afterFixes(g, moves, x, t) ==
    IF moves = << >> \/ ~g.watchId THEN g
    ELSE legacy_afterFixes(
             legacy_updatePosition(g, [x |-> x + Head(moves), timestamp |-> t + GPSTick]),
             Tail(moves), x + Head(moves), t + GPSTick)

RECURSIVE app_afterMotion(_, _, _)
app_afterMotion(a, i, rise) ==
    IF i > MaxSteady \/ a.MotionController.handlers = 0 THEN a
    ELSE app_afterMotion(
             MotionController_handleDeviceMotion(a, RowedMagnitude(i, rise), Epoch + i * MotionTick),
             i + 1, rise)

RECURSIVE app_afterFixes(_, _, _, _)
app_afterFixes(a, moves, x, t) ==
    IF moves = << >> THEN a
    ELSE app_afterFixes(
             DeliverFix(a, [x |-> x + Head(moves), timestamp |-> t + GPSTick]),
             Tail(moves), x + Head(moves), t + GPSTick)

\* The legacy program after the workout so far.
legacyRowed(method, rise, peaks) ==
    legacy_afterFixes(
        legacy_afterMotion(
            legacy_startWorkout(
                legacy_changeStrokeRateMethod(
                    legacy_requestMotionPermission(legacyFresh, TRUE), method),
                Epoch),
            1, rise),
        RowedMoves(peaks), 0, Epoch + MaxSteady * MotionTick)

\* The modular program after the workout so far.
appRowed(method, rise, peaks) ==
    app_afterFixes(
        app_afterMotion(
            app_startWorkout(
                app_changeStrokeRateMethod(
                    App(WorkoutModelFresh, SensorModelFresh,
                        MotionController_requestPermission(MotionControllerFresh, TRUE),
                        GPSControllerFresh, uiFresh),
                    method),
                Epoch),
            1, rise),
        RowedMoves(peaks), 0, Epoch + MaxSteady * MotionTick)

\* The same workout with the fixes first and the motion samples after them,
\* so that the motion window is full when the stream goes on.
RECURSIVE legacy_afterMotionFrom(_, _, _, _)
legacy_afterMotionFrom(g, i, rise, t) ==
    IF i > MaxSteady \/ ~g.listening THEN g
    ELSE legacy_afterMotionFrom(
             legacy_handleDeviceMotion(g, RowedMagnitude(i, rise), t + i * MotionTick),
             i + 1, rise, t)

RECURSIVE app_afterMotionFrom(_, _, _, _)
app_afterMotionFrom(a, i, rise, t) ==
    IF i > MaxSteady \/ a.MotionController.handlers = 0 THEN a
    ELSE app_afterMotionFrom(
             MotionController_handleDeviceMotion(a, RowedMagnitude(i, rise), t + i * MotionTick),
             i + 1, rise, t)

legacyRowedMotionLast(method, rise, peaks) ==
    legacy_afterMotionFrom(
        legacy_afterFixes(
            legacy_startWorkout(
                legacy_changeStrokeRateMethod(
                    legacy_requestMotionPermission(legacyFresh, TRUE), method),
                Epoch),
            RowedMoves(peaks), 0, Epoch),
        1, rise, Epoch + Len(RowedMoves(peaks)) * GPSTick)

appRowedMotionLast(method, rise, peaks) ==
    app_afterMotionFrom(
        app_afterFixes(
            app_startWorkout(
                app_changeStrokeRateMethod(
                    App(WorkoutModelFresh, SensorModelFresh,
                        MotionController_requestPermission(MotionControllerFresh, TRUE),
                        GPSControllerFresh, uiFresh),
                    method),
                Epoch),
            RowedMoves(peaks), 0, Epoch),
        1, rise, Epoch + Len(RowedMoves(peaks)) * GPSTick)

InitReport ==
    /\ program \in {"legacy", "modular"}
    /\ lastOp = [name |-> "load", prev |-> "load", dirty |-> FALSE, prevDirty |-> FALSE, analysed |-> null]
    /\ SensorsModel = SensorsModelFresh
    /\ WorkoutData = WorkoutDataFresh
    /\ query = null
    /\ \E method \in Methods, rise \in BOOLEAN, peaks \in BOOLEAN, stream \in {"gps", "motion"} :
          /\ now = Epoch + MaxSteady * MotionTick + Len(RowedMoves(peaks)) * GPSTick
          /\ env = [EnvInit(stream, FALSE) EXCEPT
                       !.phase = "free", !.steady = MaxFixes, !.free = MaxBurst - 2,
                       !.x = SteadyMove * MaxFixes + (IF peaks THEN 12 + SteadyMove ELSE 0)]
          /\ legacy = IF program # "legacy" THEN legacyFresh
                      ELSE IF stream = "gps" THEN legacyRowed(method, rise, peaks)
                      ELSE legacyRowedMotionLast(method, rise, peaks)
          /\ LET a == IF program = "modular"
                      THEN IF stream = "gps" THEN appRowed(method, rise, peaks)
                           ELSE appRowedMotionLast(method, rise, peaks)
                      ELSE App(WorkoutModelFresh, SensorModelFresh, MotionControllerFresh,
                               GPSControllerFresh, uiFresh)
             IN /\ WorkoutModel = a.WorkoutModel
                /\ SensorModel = a.SensorModel
                /\ MotionController = a.MotionController
                /\ GPSController = a.GPSController
                /\ ui = a.ui

NextReport ==
    \/ LegacyUpdateDisplay
    \/ LegacyStartWorkout
    \/ LegacyStopWorkout
    \/ LegacyResetWorkout
    \/ LegacyPosition
    \/ LegacyDeviceMotion
    \/ ModularUpdateDisplay
    \/ ModularStartWorkout
    \/ ModularStopWorkout
    \/ ModularResetWorkout
    \/ ModularPosition
    \/ ModularDeviceMotion

SpecReport == InitReport /\ [][NextReport]_vars

(***************************************************************************)
(* The workout history in localStorage: a history of some earlier saves,  *)
(* then calls of WorkoutStorage and of StorageService.importData.         *)
(***************************************************************************)
\* The history after n saves one second apart, the last of them at Epoch.
Stored(n) ==
    [i \in 1..n |-> [id |-> Epoch - (i - 1) * 1000, avgStrokeRate |-> 20 + (i % 3),
                     method |-> "gps"]]

StoredLengths == {0, 1, 2, MAX_WORKOUTS - 1, MAX_WORKOUTS}

\* The workout data a save is called with, and the data an import is
\* called with: no workouts member, an empty list, a list of two workouts.
WorkoutInputs ==
    {[avgStrokeRate |-> r, method |-> m] : r \in {0, 24}, m \in {"", "motion"}}

ImportInputs ==
    {[workouts |-> null], [workouts |-> << << >> >>],
     [workouts |-> << << [id |-> 7000, avgStrokeRate |-> 30, method |-> "both"],
                         [id |-> 5000, avgStrokeRate |-> 28, method |-> "gps"] >> >>]}

\* The ids a delete is called with: of the first, the second and the last
\* stored workout, and an id that is not stored.
DeleteIds ==
    LET w == WorkoutStorage_getWorkouts(ui)
    IN {1} \cup {w[i].id : i \in {1, 2, Len(w)} \cap (1..Len(w))}

storageOthers == << program, query, legacy, SensorsModel, WorkoutModel, SensorModel, MotionController, GPSController, WorkoutData >>

InitStored ==
    /\ program = "modular"
    /\ now = Epoch
    /\ env = EnvInit("gps", FALSE)
    /\ lastOp = [name |-> "load", prev |-> "load", dirty |-> FALSE, prevDirty |-> FALSE, analysed |-> null]
    /\ legacy = legacyFresh
    /\ SensorsModel = SensorsModelFresh
    /\ WorkoutModel = WorkoutModelFresh
    /\ SensorModel = SensorModelFresh
    /\ MotionController = MotionControllerFresh
    /\ GPSController = GPSControllerFresh
    /\ WorkoutData = WorkoutDataFresh
    /\ query = null
    /\ \E n \in StoredLengths :
          ui = IF n = 0 THEN uiFresh
               ELSE [uiFresh EXCEPT !.workouts = << Stored(n) >>, !.saved = << Stored(n)[1] >>]

StorageStep(name, u) ==
    /\ env.ops < MaxStorageCalls
    /\ ui' = u
    /\ env' = [env EXCEPT !.ops = @ + 1]
    /\ lastOp' = Op(name)
    /\ UNCHANGED storageOthers

StorageSaveWorkout ==
    \E workoutData \in WorkoutInputs, dt \in {0, 1000} :
        /\ now' = now + dt
        /\ StorageStep("saveWorkout", WorkoutStorage_saveWorkout(ui, workoutData, now'))

StorageDeleteWorkout ==
    \E workoutId \in DeleteIds :
        /\ StorageStep("deleteWorkout", WorkoutStorage_deleteWorkout(ui, workoutId))
        /\ UNCHANGED now

StorageClearAllWorkouts ==
    /\ StorageStep("clearAllWorkouts", WorkoutStorage_clearAllWorkouts(ui))
    /\ UNCHANGED now

StorageImportData ==
    \E data \in ImportInputs :
        /\ StorageStep("importData", StorageService_importData(ui, data))
        /\ UNCHANGED now

NextSaves == StorageSaveWorkout

SpecSaves == InitStored /\ [][NextSaves]_vars

NextStorage ==
    \/ StorageSaveWorkout
    \/ StorageDeleteWorkout
    \/ StorageClearAllWorkouts
    \/ StorageImportData

SpecStorage == InitStored /\ [][NextStorage]_vars

(***************************************************************************)
(* The devicemotion listeners of SensorsModel and of MotionController:    *)
(* permission requests, removals and cleanups, then the motion stream.    *)
(***************************************************************************)
InitListeners ==
    /\ Init
    /\ program \in {"class", "modular"}
    /\ env.stream = "motion"

NextListeners ==
    \/ ClassRequestPermission
    \/ ClassRemoveListeners
    \/ ClassSensorsCleanup
    \/ ClassDeviceMotion
    \/ ModularEnableMotionSensors
    \/ ModularRemoveListeners
    \/ ModularCleanup
    \/ ModularStartWorkout
    \/ ModularDeviceMotion

SpecListeners == InitListeners /\ [][NextListeners]_vars

(***************************************************************************)
(* The display-update loop: a rowed workout is running, the user stops,   *)
(* resets and starts while the timers of the loop fire, before or after   *)
(* the next operation.                                                    *)
(***************************************************************************)
InitLoop ==
    /\ program \in {"legacy", "modular"}
    /\ lastOp = [name |-> "load", prev |-> "load", dirty |-> FALSE, prevDirty |-> FALSE, analysed |-> null]
    /\ SensorsModel = SensorsModelFresh
    /\ WorkoutData = WorkoutDataFresh
    /\ query = null
    /\ now = Epoch + MaxSteady * MotionTick + Len(RowedMoves(TRUE)) * GPSTick
    /\ env = [EnvInit("gps", TRUE) EXCEPT
                 !.phase = "free", !.steady = MaxFixes, !.free = 0,
                 !.x = SteadyMove * MaxFixes + 12 + SteadyMove]
    /\ \E method \in Methods :
          /\ legacy = IF program = "legacy" THEN legacyRowed(method, TRUE, TRUE) ELSE legacyFresh
          /\ LET a == IF program = "modular" THEN appRowed(method, TRUE, TRUE)
                      ELSE App(WorkoutModelFresh, SensorModelFresh, MotionControllerFresh,
                               GPSControllerFresh, uiFresh)
             IN /\ WorkoutModel = a.WorkoutModel
                /\ SensorModel = a.SensorModel
                /\ MotionController = a.MotionController
                /\ GPSController = a.GPSController
                /\ ui = a.ui

NextLoop ==
    \/ LegacyUpdateDisplay
    \/ LegacyTimeoutStopped
    \/ LegacyStartWorkout
    \/ LegacyStopWorkout
    \/ LegacyResetWorkout
    \/ ModularUpdateDisplay
    \/ ModularIntervalStopped
    \/ ModularStartWorkout
    \/ ModularStopWorkout
    \/ ModularResetWorkout

SpecLoop == InitLoop /\ [][NextLoop]_vars

(***************************************************************************)
(* What the claims speak of.                                              *)
(***************************************************************************)
\* The motion detector of the running program: its window, the time of its
\* last firing, its rate, its stroke count and whether it evaluates samples.
MotionDetector ==
    IF program = "legacy"
    THEN [history |-> legacy.accelerationHistory, last |-> legacy.lastStrokeDetection,
          rate |-> legacy.currentStrokeRate, count |-> legacy.strokeCount,
          active |-> legacy.isRunning /\ legacy.motionPermission]
    ELSE IF program = "class"
    THEN [history |-> SensorsModel.accelerationHistory, last |-> SensorsModel.lastStrokeDetection,
          rate |-> SensorsModel.currentStrokeRate, count |-> SensorsModel.strokeCount,
          active |-> SensorsModel.motionPermission]
    ELSE [history |-> SensorModel.accelerationHistory, last |-> SensorModel.lastStrokeDetection,
          rate |-> SensorModel.currentStrokeRate, count |-> WorkoutModel.strokeCount,
          active |-> MotionController.hasPermission /\ MotionController.isDetecting]

\* Every stroke rate the program holds or computes from what it holds.
ReportedRates ==
    { legacy.currentStrokeRate, legacy.gpsStrokeRate, SensorsModel.currentStrokeRate,
      WorkoutModel.gpsStrokeRate, SensorModel.currentStrokeRate, SensorModel.gpsStrokeRate,
      SensorModel_calculateGPSStrokeRate(SensorModel),
      calculateStrokeRateFromPeaks(WorkoutModel.speedPeaks) }
    \cup { legacy.strokeTimes[i].rate : i \in 1..Len(legacy.strokeTimes) }
    \cup { SensorsModel.strokeTimes[i].rate : i \in 1..Len(SensorsModel.strokeTimes) }

\* The samples of a window that count as strokes for the rate, seen from the
\* newest sample: later than 10 s before it and above the baseline + 3.
StrokesCounted(history) ==
    LET newest == history[Len(history)]
        recentData == Slice(history, 20)
    IN Len(SelectSeq(history, LAMBDA a : /\ a.timestamp > newest.timestamp - 10000
                                          /\ AboveAverage(a.magnitude, recentData, 3)))

\* C1: in every reachable state every motion rate and every GPS rate the
\* program reports is an integer in 0..40, whatever the spike train was.
C1_RatesInRange == \A r \in ReportedRates : r \in 0..MAX_STROKE_RATE

\* C1, the case: a stroke has just fired on a window whose extrapolated rate
\* is above 40, and the rate reads 40.
C1_CappedRate ==
    /\ lastOp.name = "handleDeviceMotion"
    /\ Len(MotionDetector.history) >= 20
    /\ MotionDetector.last = now
    /\ 6 * StrokesCounted(MotionDetector.history) > MAX_STROKE_RATE
    /\ MotionDetector.rate = MAX_STROKE_RATE

\* The newest sample of the detector's window is above the firing threshold
\* (baseline of the last 20 samples + 4).
NewestAboveThreshold ==
    LET history == MotionDetector.history
    IN /\ Len(history) >= 20
       /\ AboveAverage(history[Len(history)].magnitude, Slice(history, 20), 4)

C2_SpikeSuppressedEarlier ==
    /\ lastOp.name = "handleDeviceMotion"
    /\ MotionDetector.active
    /\ NewestAboveThreshold
    /\ MotionDetector.last > 0
    /\ now - MotionDetector.last = 500

\* Every sample of the window has the magnitude of the newest one.
ConstantWindow(history) ==
    \A i \in 1..Len(history) : history[i].magnitude = history[Len(history)].magnitude

\* C3: a sample that finds the window filled with one constant magnitude
\* never fires a stroke, whatever the spacing of the samples: the count of
\* strokes and the time of the last firing stay as they were.
C3_ConstantNeverFires ==
    [][ (lastOp'.name = "handleDeviceMotion" /\ ConstantWindow(MotionDetector'.history))
            => /\ MotionDetector'.count = MotionDetector.count
               /\ MotionDetector'.last = MotionDetector.last ]_vars

\* C3, the case: an active detector that is not held back by the debounce
\* has evaluated a sample of the free stretch on a window of 20 or more
\* samples of one magnitude.
C3_ConstantStream ==
    /\ lastOp.name = "handleDeviceMotion"
    /\ MotionDetector.active
    /\ env.phase = "free"
    /\ Len(MotionDetector.history) >= 20
    /\ ConstantWindow(MotionDetector.history)
    /\ now - MotionDetector.last > MIN_STROKE_INTERVAL

\* The spikes among the first k samples of a sawtooth of n samples per spike
\* that an armed detector (20 samples in its window) has evaluated.
SpikesEvaluated(k, n) == IF k < 20 THEN 0 ELSE (k \div n) - (19 \div n)

\* C4: on the sawtooth (Baseline, with a spike of Baseline + 6 every 1000 ms)
\* sampled at least 4 times per spike, an active detector fires exactly once
\* per spike it evaluates, and once the stream has run for the 10 s of the
\* rate window the motion rate reads 40, the cap on the 60 strokes per minute
\* that 10 spikes in 10 s extrapolate to.
C4_SawtoothCapped ==
    (MotionDetector.active /\ env.n >= 4)
        => /\ MotionDetector.count = SpikesEvaluated(env.steady, env.n)
           /\ env.steady >= 10 * env.n => MotionDetector.rate = MAX_STROKE_RATE

\* C4, the case: the stream has run for more than 10 s and the detector has
\* just fired on a spike.
C4_SawtoothWindowFilled ==
    /\ lastOp.name = "handleDeviceMotion"
    /\ MotionDetector.active /\ env.n >= 4
    /\ env.steady > 10 * env.n
    /\ MotionDetector.last = now
    /\ StrokesCounted(MotionDetector.history) = 10

\* C4 as stated: on every sawtooth that alternates Baseline and Baseline + 6
\* with spikes 1000 ms apart the detector fires once per spike, and every rate
\* reported once the window has filled is 60.
C4_SawtoothSixty ==
    MotionDetector.active
        => /\ MotionDetector.count = SpikesEvaluated(env.steady, env.n)
           /\ env.steady >= 10 * env.n => MotionDetector.rate = 60

\* No sample of the window is as old as the retention before the newest.
Retained(window, retentionMs) ==
    \A i \in 1..Len(window) : window[i].timestamp > window[Len(window)].timestamp - retentionMs

\* C5: after every append to a window every retained sample is later than
\* the appended sample's timestamp minus the retention: 10 s for the
\* acceleration history, 30 s for the speed history and for the speed peaks,
\* 120 s for the rate records.
C5_WindowsRetained ==
    /\ Retained(legacy.accelerationHistory, ACCELERATION_HISTORY_WINDOW)
    /\ Retained(SensorsModel.accelerationHistory, ACCELERATION_HISTORY_WINDOW)
    /\ Retained(SensorModel.accelerationHistory, ACCELERATION_HISTORY_WINDOW)
    /\ Retained(legacy.speedHistory, SPEED_HISTORY_WINDOW)
    /\ Retained(WorkoutModel.speedHistory, SPEED_HISTORY_WINDOW)
    /\ Retained(WorkoutData.speedHistory, SPEED_HISTORY_WINDOW)
    /\ Retained(legacy.speedPeaks, PEAK_HISTORY_WINDOW)
    /\ Retained(WorkoutModel.speedPeaks, PEAK_HISTORY_WINDOW)
    /\ Retained(SensorModel.speedPeaks, PEAK_HISTORY_WINDOW)
    /\ Retained(legacy.strokeTimes, STROKE_TIMES_RETENTION)
    /\ Retained(SensorsModel.strokeTimes, STROKE_TIMES_RETENTION)
    /\ Retained(WorkoutData.strokeTimes, STROKE_TIMES_RETENTION)

\* C5 without the windows the modular program's handleGPSUpdate appends to:
\* every other append of the program evicts.
C5_EvictingAppends ==
    program # "modular" => C5_WindowsRetained

\* Two or more retained peaks, the oldest and the newest of one timestamp.
ZeroSpan(peaks) == Len(peaks) >= 2 /\ peaks[1].timestamp = peaks[Len(peaks)].timestamp

\* C6: every GPS rate function of the program yields 0 for retained peaks of
\* identical timestamps: calculateStrokeRateFromPeaks of the detection
\* service and SensorModel.calculateGPSStrokeRate.
C6_ZeroSpanRateIsZero ==
    ZeroSpan(SensorModel.speedPeaks)
        => /\ calculateStrokeRateFromPeaks(SensorModel.speedPeaks) = 0
           /\ SensorModel_calculateGPSStrokeRate(SensorModel) = 0

\* C6 for the detection service alone, whose calculateStrokeRate tests the
\* time span before it divides.
C6_ServiceRateIsZero ==
    ZeroSpan(SensorModel.speedPeaks) => calculateStrokeRateFromPeaks(SensorModel.speedPeaks) = 0

\* The call the selector answered last.
TheQuery == query[1]

\* C7: getCurrentRate("both", 24, 26), its parameters being (method,
\* motionRate, gpsRate), returns the object with motion = 24 and gps = 26,
\* and getCurrentRate("unknown", 24, 26) returns 0.
C7_SelectBothTagged ==
    (query # null /\ TheQuery.fn = "getCurrentRate" /\ TheQuery.motionRate = 24 /\ TheQuery.gpsRate = 26)
        => /\ TheQuery.method = "both" => TheQuery.result = [motion |-> 24, gps |-> 26]
           /\ TheQuery.method = "unknown" => TheQuery.result = Number(0)

\* C7, the case: getCurrentRate("both", 24, 26) has been called.
C7_SelectBothCalled ==
    /\ query # null
    /\ TheQuery.fn = "getCurrentRate" /\ TheQuery.method = "both"
    /\ TheQuery.motionRate = 24 /\ TheQuery.gpsRate = 26

\* C7 as stated: getCurrentRate("both", 24, 26) returns motion = 26 and
\* gps = 24, and getCurrentRate("unknown", 24, 26) returns 0.
C7_SelectBothExchanged ==
    (query # null /\ TheQuery.fn = "getCurrentRate" /\ TheQuery.motionRate = 24 /\ TheQuery.gpsRate = 26)
        => /\ TheQuery.method = "both" => TheQuery.result = [motion |-> 26, gps |-> 24]
           /\ TheQuery.method = "unknown" => TheQuery.result = Number(0)

\* What a selector returns for a method and a pair of rates.
Selected(method, motionRate, gpsRate) ==
    CASE method = "motion" -> Number(motionRate)
      [] method = "gps" -> Number(gpsRate)
      [] method = "both" -> [motion |-> motionRate, gps |-> gpsRate]
      [] OTHER -> Number(0)

\* C8: for every method and every pair of rates getCurrentRate returns the
\* motion rate for 'motion', the GPS rate for 'gps', the pair tagged motion
\* and gps for 'both' and 0 for any other method; getCurrentStrokeRate returns
\* the same for the stored method and the stored rates; and a call of either
\* changes no state of the program.
C8_MethodSelection ==
    [][ query' # query
          => /\ query'[1].result = Selected(query'[1].method, query'[1].motionRate, query'[1].gpsRate)
             /\ query'[1].fn = "getCurrentStrokeRate"
                   => /\ query'[1].method = SensorModel.strokeRateMethod
                      /\ query'[1].motionRate = SensorModel.currentStrokeRate
                      /\ query'[1].gpsRate = SensorModel.gpsStrokeRate
             /\ UNCHANGED << legacy, SensorsModel, WorkoutModel, SensorModel, MotionController, GPSController, WorkoutData >> ]_vars

\* C8, the case: getCurrentStrokeRate has been called with the method 'both'
\* and two different rates stored.
C8_BothStored ==
    /\ query # null
    /\ TheQuery.fn = "getCurrentStrokeRate" /\ TheQuery.method = "both"
    /\ SensorModel.strokeRateMethod = "both"
    /\ SensorModel.currentStrokeRate = 24 /\ SensorModel.gpsStrokeRate = 26

\* C9: reset() of the sensor model restores every data field (windows, times
\* of the last detections, rates, counts) to its constructed value and leaves
\* the configuration as it was: strokeRateMethod and motionPermission of
\* SensorModel, motionPermission, isListening and the registered listener of
\* SensorsModel.
C9_ResetRestoresData ==
    [][ lastOp'.name = "reset"
          => /\ program \in {"api", "modular"}
                   => SensorModel' = [SensorModelFresh EXCEPT
                                         !.strokeRateMethod = SensorModel.strokeRateMethod,
                                         !.motionPermission = SensorModel.motionPermission]
             /\ program = "class"
                   => SensorsModel' = [SensorsModelFresh EXCEPT
                                          !.motionPermission = SensorsModel.motionPermission,
                                          !.isListening = SensorsModel.isListening,
                                          !.handlers = SensorsModel.handlers] ]_vars

\* C9, the case: reset() has cleared data of a SensorModel whose method had
\* been set to 'motion'.
C9_ResetAfterConfiguration ==
    /\ lastOp.name = "reset" /\ lastOp.dirty
    /\ program = "api" /\ env.stream = "sensor"
    /\ SensorModel.strokeRateMethod = "motion"

\* C9 as stated: after reset() the entire state of the sensor model is that
\* of a freshly constructed one.
C9_ResetIsFresh ==
    lastOp.name = "reset"
        => /\ program \in {"api", "modular"} => SensorModel = SensorModelFresh
           /\ program = "class" => SensorsModel = SensorsModelFresh

\* C10: reset() followed immediately by reset() yields exactly the state a
\* single reset() produced: the second changes no object of the program.
C10_ResetIdempotent ==
    [][ (lastOp.name = "reset" /\ lastOp'.name = "reset")
          => UNCHANGED << legacy, SensorsModel, WorkoutModel, SensorModel, MotionController, GPSController, WorkoutData >> ]_vars

\* C10, the case: a reset that cleared something was followed at once by a
\* second reset.
C10_ResetTwice ==
    /\ lastOp.name = "reset" /\ lastOp.prev = "reset"
    /\ lastOp.prevDirty

\* The detector windows and fields of the legacy program and of the modular
\* program, as resetWorkout leaves them or not.
DetectorsCleared ==
    /\ program = "legacy"
          => /\ legacy.accelerationHistory = << >> /\ legacy.speedHistory = << >>
             /\ legacy.speedPeaks = << >> /\ legacy.strokeTimes = << >>
             /\ legacy.lastStrokeDetection = 0 /\ legacy.lastSpeedPeak = 0
             /\ legacy.currentStrokeRate = 0 /\ legacy.gpsStrokeRate = 0
    /\ program = "modular"
          => /\ SensorModel.accelerationHistory = << >> /\ SensorModel.speedPeaks = << >>
             /\ SensorModel.lastStrokeDetection = 0 /\ SensorModel.lastSpeedPeak = 0
             /\ SensorModel.currentStrokeRate = 0 /\ SensorModel.gpsStrokeRate = 0
             /\ WorkoutModel.speedHistory = << >> /\ WorkoutModel.speedPeaks = << >>
             /\ WorkoutModel.lastSpeedPeak = 0 /\ WorkoutModel.gpsStrokeRate = 0

\* C11: after resetWorkout every detector window (acceleration history, speed
\* history, speed peaks, rate records) is empty and lastStrokeDetection,
\* lastSpeedPeak, the motion rate and the GPS rate are 0.
C11_ResetClearsDetectors ==
    (lastOp.name = "reset" /\ program \in {"legacy", "modular"}) => DetectorsCleared

\* C11 for the modular program alone: app.resetWorkout clears every window
\* and detector field of SensorModel and WorkoutModel.
C11_ModularResetClearsDetectors ==
    (lastOp.name = "reset" /\ program = "modular") => DetectorsCleared

\* A step in which the motion detector of the running program takes a sample.
Observes ==
    /\ lastOp'.name = "handleDeviceMotion"
    /\ MotionDetector'.history # MotionDetector.history

\* C12 as stated: once an observation has found at least 20 samples in the
\* acceleration window, the next observation finds at least 20 samples too,
\* whatever the gap between the timestamps.
C12_ArmedStaysArmed ==
    [][ (Observes /\ Len(MotionDetector.history) >= BASELINE_SAMPLE_SIZE)
          => Len(MotionDetector'.history) >= BASELINE_SAMPLE_SIZE ]_vars

\* C12: an observation finds at least 20 samples in the acceleration window
\* exactly when at least 19 of the samples held before it are later than its
\* timestamp minus 10 s: eviction after a gap takes the detector back to
\* Accumulating without a reset.
C12_ArmedWhileWindowFull ==
    [][ Observes
          => LET kept == After(MotionDetector.history, now' - ACCELERATION_HISTORY_WINDOW)
             IN /\ Len(MotionDetector'.history) = Len(kept) + 1
                /\ (Len(MotionDetector'.history) >= BASELINE_SAMPLE_SIZE)
                      = (Len(kept) >= BASELINE_SAMPLE_SIZE - 1) ]_vars

\* C12, the case: right after the regular stretch of samples had filled the
\* window, a sample more than 10 s later found the window with that sample
\* alone.
C12_BackToAccumulating ==
    /\ lastOp.name = "handleDeviceMotion" /\ lastOp.prev = "handleDeviceMotion"
    /\ env.stream = "motion" /\ env.steady = MaxSteady /\ env.free = 1
    /\ Len(MotionDetector.history) = 1
    /\ MotionDetector.history[1].timestamp = now

\* C13: the mean of an empty window is 0, not NaN:
\* calculateAverage([]) = 0, getAverageAcceleration() = 0 on an empty history,
\* calculateAverageSpeed([]) = 0, and the baseline of a window of fewer than
\* 20 samples is 0, on every window the program holds.
C13_EmptyMeanIsZero ==
    /\ calculateAverage(<< >>) = Zero /\ calculateAverage(<< >>) # NaN
    /\ calculateAverageSpeed(<< >>) = Zero
    /\ SensorModel.accelerationHistory = << >> => getAverageAcceleration(SensorModel) = Zero
    /\ \A h \in {SensorModel.accelerationHistory, legacy.accelerationHistory, SensorsModel.accelerationHistory} :
          /\ h = << >> => calculateAverage(Magnitude(h)) = Zero
          /\ Len(h) < BASELINE_SAMPLE_SIZE => calculateBaseline(h) = Zero
    /\ \A h \in {WorkoutModel.speedHistory, WorkoutData.speedHistory, legacy.speedHistory} :
          /\ calculateAverageSpeed(h) # NaN
          /\ h = << >> => calculateAverageSpeed(h) = Zero

\* C13, the case: the window holds samples of non-zero mean, fewer than 20,
\* and the baseline is reported as 0.
C13_ShortWindowBaseline ==
    /\ lastOp.name = "handleDeviceMotion" /\ program = "modular"
    /\ Len(SensorModel.accelerationHistory) \in 1..(BASELINE_SAMPLE_SIZE - 1)
    /\ getAverageAcceleration(SensorModel) # Zero
    /\ calculateBaseline(SensorModel.accelerationHistory) = Zero

\* C14: the motion rate is 0 exactly when no stroke has fired since
\* construction or the last reset, and a rate that is not 0 is an integer of
\* at least 6: every firing counts its own sample.
C14_RateZeroIffNoStroke ==
    program \in {"legacy", "class", "modular"}
        => /\ (MotionDetector.rate = 0) = (MotionDetector.count = 0)
           /\ MotionDetector.rate \in {0} \cup (6..MAX_STROKE_RATE)

\* C14, the case: a stroke has just fired with its own sample the only one
\* counted, and the motion rate reads 6.
C14_FirstStrokeRate ==
    /\ lastOp.name = "handleDeviceMotion"
    /\ program \in {"legacy", "class", "modular"}
    /\ MotionDetector.last = now
    /\ MotionDetector.count = 1
    /\ MotionDetector.rate = 6

\* SensorsModel.getAverageStrokeRate(), and the average showWorkoutSummary()
\* of src/app.js computes: the rounded mean of the rates of the retained
\* records, 0 without records.
averageRate(strokeTimes) ==
    IF Len(strokeTimes) = 0 THEN 0
    ELSE RoundDiv(SumRate(strokeTimes), Len(strokeTimes))

\* C15: the average stroke rate shown when a workout ends is the rounded mean
\* of the rates of the records retained in the 2-minute window, and 0 (or no
\* rate at all) when no record is retained.
C15_SummaryShowsAverage ==
    [][ (lastOp'.name = "stopWorkout" /\ program = "legacy" /\ legacy.isRunning)
          => /\ \A i \in 1..Len(legacy'.strokeTimes) :
                   legacy'.strokeTimes[i].timestamp > now' - STROKE_TIMES_RETENTION
             /\ legacy'.summaryAvgStrokeRate
                   \in {<< averageRate(legacy'.strokeTimes) >>}
                       \cup (IF legacy'.strokeTimes = << >> THEN {null} ELSE {}) ]_vars

\* C15, where records are retained: the summary shown at the end of a
\* workout of the legacy program is the rounded mean of their rates.
C15_SummaryOfRecords ==
    [][ (lastOp'.name = "stopWorkout" /\ program = "legacy" /\ legacy.isRunning
            /\ legacy.strokeTimes # << >>)
          => legacy'.summaryAvgStrokeRate = << averageRate(legacy'.strokeTimes) >> ]_vars

\* C16: in 'both' mode the number reported at the end of a workout (summary
\* and saved workout) is not one detector's rate taken in preference to the
\* other's: when both detectors hold a rate, the two agree.
C16_NoReconciliation ==
    [][ (/\ lastOp'.name = "stopWorkout" /\ program = "modular"
         /\ SensorModel.strokeRateMethod = "both"
         /\ SensorModel.currentStrokeRate > 0 /\ WorkoutModel.gpsStrokeRate > 0
         /\ ui'.summaryAvgStrokeRate # null /\ ui'.saved # null)
          => SensorModel.currentStrokeRate = WorkoutModel.gpsStrokeRate ]_vars

\* C16 for the display: in 'both' mode a display update shows each
\* detector's own current rate under its own label.
C16_DisplayShowsBoth ==
    [][ (lastOp'.name = "updateDisplay" /\ program = "modular"
            /\ SensorModel.strokeRateMethod = "both")
          => ui'.strokeRate = StrokeRateText("both", Shown(SensorModel.gpsStrokeRate),
                                             Shown(SensorModel.currentStrokeRate)) ]_vars

\* C17: an observation whose magnitude is NaN is not appended to the
\* acceleration window and does not reach the mean of later observations.
C17_DegenerateIgnored ==
    /\ ~HasNaN(Magnitude(SensorModel.accelerationHistory))
    /\ getAverageAcceleration(SensorModel) # NaN

\* C18: an observation whose timestamp is smaller than the last one the
\* detector has seen is not appended: the acceleration window stays in the
\* order of its timestamps.
C18_OutOfOrderIgnored ==
    LET h == SensorModel.accelerationHistory
    IN \A i \in 1..Len(h), j \in 1..Len(h) : i < j => h[i].timestamp <= h[j].timestamp

\* The announcements of the last display update, and the two trackers.
Spoken == IF program = "legacy" THEN legacy.spoken ELSE ui.spoken

Trackers(g, w) ==
    IF program = "legacy"
    THEN [strokeRate |-> g.lastStrokeRateAnnounce, split |-> g.lastSplitAnnounce]
    ELSE [strokeRate |-> w.lastStrokeRateAnnounce, split |-> w.lastSplitAnnounce]

\* C19: a stroke-rate announcement and a split announcement are never issued
\* in the same display update, whatever the two configured intervals are.
C19_NeverSameTick ==
    lastOp.name = "updateDisplay" => Spoken # {"strokeRate", "split"}

\* C19, the part about the trackers: a display update that does not
\* announce the split leaves the split tracker unchanged, and a display
\* update of the legacy program that does not announce the stroke rate leaves
\* the stroke-rate tracker unchanged.
C19_IndependentTrackers ==
    [][lastOp'.name = "updateDisplay" =>
          /\ "split" \notin Spoken' =>
                 Trackers(legacy, WorkoutModel)'.split = Trackers(legacy, WorkoutModel).split
          /\ program = "legacy" /\ "strokeRate" \notin Spoken' =>
                 Trackers(legacy, WorkoutModel)'.strokeRate
                     = Trackers(legacy, WorkoutModel).strokeRate]_vars

\* C20: a workout started right after the motion permission was denied runs
\* GPS tracking, whatever stroke-rate method is selected.
C20_FallsBackToGPS ==
    [][/\ program = "modular"
       /\ lastOp.name = "enableMotionSensors" /\ ~MotionController.hasPermission
       /\ lastOp'.name = "startWorkout"
       => GPSController'.isTracking /\ WorkoutModel'.watchId]_vars

\* C20 where a method with GPS is selected: the workout started after the
\* denial tracks the position.
C20_GPSMethodsTrack ==
    [][/\ program = "modular"
       /\ lastOp.name = "enableMotionSensors" /\ ~MotionController.hasPermission
       /\ lastOp'.name = "startWorkout"
       /\ SensorModel.strokeRateMethod \in {"gps", "both"}
       => GPSController'.isTracking /\ WorkoutModel'.watchId
              /\ ~MotionController'.isDetecting]_vars

\* The sample the last motion event appended, and the firing condition of
\* the detector on it: a window of 20 samples or more, the sample above the
\* mean of the last 20 (itself included) + 4, and more than 800 ms since
\* the firing remembered before the event.
FiringCondition(history, lastStrokeTime) ==
    LET current == history[Len(history)]
    IN /\ Len(history) >= BASELINE_SAMPLE_SIZE
       /\ AboveAverage(current.magnitude, Slice(history, BASELINE_SAMPLE_SIZE),
                       ACCELERATION_THRESHOLD)
       /\ current.timestamp - lastStrokeTime > MIN_STROKE_INTERVAL

\* The newest sample of the window is exactly the mean of the last 20
\* samples + 4.
NewestAtThreshold(history) ==
    /\ Len(history) >= BASELINE_SAMPLE_SIZE
    /\ history[Len(history)].magnitude * BASELINE_SAMPLE_SIZE
           = SumMagnitude(Slice(history, BASELINE_SAMPLE_SIZE))
               + ACCELERATION_THRESHOLD * BASELINE_SAMPLE_SIZE

C21_Fired ==
    /\ lastOp.name = "handleDeviceMotion"
    /\ MotionDetector.active
    /\ Len(MotionDetector.history) >= BASELINE_SAMPLE_SIZE
    /\ MotionDetector.last = now
    /\ MotionDetector.count > 0

\* C22: the rate a firing reports is min(40, round(count / 10 * 60)), count
\* being the samples of the window later than the firing timestamp - 10000
\* whose magnitude is above the mean of the last 20 samples + 3.
C22_RateOnFiring ==
    [][ (lastOp'.name = "handleDeviceMotion"
           /\ MotionDetector'.count = MotionDetector.count + 1)
            => MotionDetector'.rate
                   = Min(RoundPerMinute(StrokesCounted(MotionDetector'.history),
                                        STROKE_RATE_WINDOW),
                         MAX_STROKE_RATE) ]_vars

\* C22, the case: a stroke has just fired on a window that counts two
\* samples above the secondary threshold, and the rate reads 12.
C22_TwoCounted ==
    /\ lastOp.name = "handleDeviceMotion"
    /\ MotionDetector.active
    /\ MotionDetector.last = now
    /\ StrokesCounted(MotionDetector.history) = 2
    /\ MotionDetector.rate = 12

\* The rate-history window of the running program: strokeTimes of the legacy
\* program and of SensorsModel, strokeTimes of the workout data object that
\* the modular program's addStroke appends to.
RateHistory ==
    IF program = "legacy" THEN legacy.strokeTimes
    ELSE IF program = "class" THEN SensorsModel.strokeTimes
    ELSE WorkoutData.strokeTimes

\* The firing of the step stamped the detector with the event's timestamp
\* and appended the record of its rate to the rate history.
FiringRecorded ==
    /\ MotionDetector'.last = now'
    /\ Len(RateHistory') > 0
    /\ RateHistory'[Len(RateHistory')]
           = [rate |-> MotionDetector'.rate, timestamp |-> now']

\* C23: on every motion firing, in every motion path, the last trigger is
\* the firing sample's timestamp, the stroke count goes up by one, and the
\* record of the rate just computed is appended to the rate history.
C23_FiringRecordsRate ==
    [][ (lastOp'.name = "handleDeviceMotion"
           /\ MotionDetector'.count # MotionDetector.count)
            => MotionDetector'.count = MotionDetector.count + 1 /\ FiringRecorded ]_vars

\* C23 for the two paths that keep their own rate history, the legacy
\* detectStroke and SensorsModel.detectStroke.
C23_OwnHistoryRecorded ==
    [][ (lastOp'.name = "handleDeviceMotion" /\ program \in {"legacy", "class"}
           /\ MotionDetector'.count # MotionDetector.count)
            => MotionDetector'.count = MotionDetector.count + 1 /\ FiringRecorded ]_vars

\* The GPS detector of the running program: its speed history, its peaks,
\* the time of its last peak and its rate.
GPSDetector ==
    IF program = "legacy"
    THEN [history |-> legacy.speedHistory, peaks |-> legacy.speedPeaks,
          last |-> legacy.lastSpeedPeak, rate |-> legacy.gpsStrokeRate,
          distance |-> legacy.totalDistance]
    ELSE [history |-> WorkoutModel.speedHistory, peaks |-> WorkoutModel.speedPeaks,
          last |-> WorkoutModel.lastSpeedPeak, rate |-> WorkoutModel.gpsStrokeRate,
          distance |-> WorkoutModel.totalDistance]

\* A step of the GPS stream, and whether it recorded the fix's speed as the
\* newest sample of the history.
PositionStep == lastOp'.name \in {"updatePosition", "handlePositionUpdate"}

SpeedRecorded ==
    /\ now' > now
    /\ Len(GPSDetector'.history) > 0
    /\ GPSDetector'.history[Len(GPSDetector'.history)].timestamp = now'

\* The step accepted a peak.
PeakAccepted == GPSDetector'.peaks # GPSDetector.peaks \/ GPSDetector'.last # GPSDetector.last

\* The peak condition on a history whose newest sample is the current one.
PeakCondition(history, lastPeakTime) ==
    LET current == history[Len(history)]
    IN /\ Len(history) >= MIN_SAMPLES_FOR_DETECTION
       /\ AbovePeakThreshold(current.speed, Slice(history, RECENT_SPEEDS))
       /\ current.timestamp - lastPeakTime > MIN_TIME_BETWEEN_PEAKS

\* C24, amended: the speed of a fix is accepted as a peak if and only if it
\* was recorded and the speed history, the current sample counted, holds 5
\* samples or more, the speed is above 1.10 times the mean of the last 10
\* samples of the history (the current one among them), and the timestamp is
\* more than 1000 ms after the last peak.
C24_PeakIffCondition ==
    [][ PositionStep
            => ( PeakAccepted
                   <=> SpeedRecorded /\ PeakCondition(GPSDetector'.history, GPSDetector.last) ) ]_vars

\* C24, the case: a peak was accepted on a history of exactly 5 samples, the
\* current one counted.
C24_PeakOnFifthSample ==
    /\ lastOp.name \in {"updatePosition", "handlePositionUpdate"}
    /\ GPSDetector.last = now
    /\ Len(GPSDetector.history) = MIN_SAMPLES_FOR_DETECTION

\* C24 as stated: a peak is accepted only if 5 samples or more were recorded
\* before the current one.
C24_FivePriorSamples ==
    [][ (PositionStep /\ PeakAccepted)
            => Len(GPSDetector'.history) - 1 >= MIN_SAMPLES_FOR_DETECTION ]_vars

\* Any two neighbours of a peaks window are more than 1000 ms apart.
Debounced(peaks) ==
    \A i \in 1..Len(peaks) - 1 :
        peaks[i + 1].timestamp - peaks[i].timestamp > MIN_TIME_BETWEEN_PEAKS

C25_TwoPeaksRetained == Len(GPSDetector.peaks) >= 2

\* C26: a position step that accepts a peak sets the last peak time to the
\* peak's timestamp and appends the peak to a window with 30 s retention:
\* after the step every retained peak is later than the peak's timestamp
\* minus 30000.
C26_AcceptedPeakRetained ==
    [][ (PositionStep /\ PeakAccepted)
            => /\ GPSDetector'.last = now'
               /\ Len(GPSDetector'.peaks) > 0
               /\ GPSDetector'.peaks[Len(GPSDetector'.peaks)].timestamp = now'
               /\ Retained(GPSDetector'.peaks, PEAK_HISTORY_WINDOW) ]_vars

\* C26 for the paths that evict on acceptance: the legacy and the WorkoutModel
\* analyzeSpeedForStrokeRate, and SensorModel.addSpeedPeak.
C26_EvictingPathsRetained ==
    [][ /\ (PositionStep /\ PeakAccepted /\ program # "modular")
            => /\ GPSDetector'.last = now'
               /\ GPSDetector'.peaks[Len(GPSDetector'.peaks)].timestamp = now'
               /\ Retained(GPSDetector'.peaks, PEAK_HISTORY_WINDOW)
        /\ lastOp'.name = "addSpeedPeak"
            => /\ SensorModel'.lastSpeedPeak = now'
               /\ Retained(SensorModel'.speedPeaks, PEAK_HISTORY_WINDOW) ]_vars

\* r is min(40, round(60000 * n / ms)) for ms > 0: below the cap r is the
\* integer within a half of the quotient (a half rounds up), and the cap is
\* reached when the quotient is 39.5 or more.
IsCappedRate(r, n, ms) ==
    /\ r \in 0..40
    /\ r < 40 => /\ (2 * r - 1) * ms <= 2 * 60000 * n
                 /\ 2 * 60000 * n < (2 * r + 1) * ms
    /\ r = 40 => 2 * 60000 * n >= 79 * ms

\* The GPS rate formula on a window of peaks, for each of the two functions
\* that compute the rate.
RateFormula(peaks) ==
    LET span == peaks[Len(peaks)].timestamp - peaks[1].timestamp
        ofService == calculateStrokeRateFromPeaks(peaks)
        ofModel == SensorModel_calculateGPSStrokeRate([SensorModel EXCEPT !.speedPeaks = peaks])
    IN /\ Len(peaks) < 2 => ofService = 0 /\ ofModel = 0
       /\ (Len(peaks) >= 2 /\ span > 0)
              => /\ IsCappedRate(ofService, Len(peaks) - 1, span)
                 /\ IsCappedRate(ofModel, Len(peaks) - 1, span)
       /\ (Len(peaks) = 2 /\ span = 2000) => ofService = 30 /\ ofModel = 30

\* C27: on every window of peaks the program comes to hold, the GPS rate of
\* N >= 2 peaks over a positive time span is
\* min(40, round((N - 1) / (span / 1000) * 60)), 30 for exactly 2 peaks
\* 2000 ms apart, and the rate of fewer than 2 peaks is 0; the rate stored
\* on accepting a peak with 2 or more peaks retained is that rate.
C27_GPSRateFormula ==
    /\ RateFormula(legacy.speedPeaks)
    /\ RateFormula(WorkoutModel.speedPeaks)
    /\ RateFormula(SensorModel.speedPeaks)
    /\ (/\ lastOp.name \in {"updatePosition", "handlePositionUpdate"}
        /\ GPSDetector.last = now /\ Len(GPSDetector.peaks) >= 2)
           => IsCappedRate(GPSDetector.rate, Len(GPSDetector.peaks) - 1,
                           now - GPSDetector.peaks[1].timestamp)

\* C27, the case: exactly 2 peaks 2000 ms apart are retained, the second
\* just accepted, and the rate reads 30.
C27_TwoPeaksThirty ==
    /\ lastOp.name \in {"updatePosition", "handlePositionUpdate"}
    /\ Len(GPSDetector.peaks) = 2
    /\ GPSDetector.last = now
    /\ now - GPSDetector.peaks[1].timestamp = 2000
    /\ GPSDetector.rate = 30

\* C28: every speed sample a position handler passes to the peak detector
\* comes from a fix pair more than 3 m apart and is a speed of 0.5 m/s or
\* more; a fix the noise filter rejects is not analysed.
C28_AnalysedPassedFilter ==
    lastOp.analysed # null
        => /\ lastOp.analysed[1].distance > MIN_DISTANCE
           /\ lastOp.analysed[1].speed >= MIN_SPEED

\* C28 for WorkoutModel.updatePosition and GPSController.handlePositionUpdate,
\* which call the detector inside the speed test.
C28_ClassAndModularFiltered ==
    program # "legacy" => C28_AnalysedPassedFilter

\* The last fix the running program remembers.
LastFix ==
    IF program = "legacy" THEN legacy.lastPosition
    ELSE IF program = "class" THEN WorkoutModel.lastPosition
    ELSE GPSController.lastPosition

\* C29: a fix whose timestamp is not later than the previous fix's produces
\* no speed sample: the total distance, the speed history, the peaks, the
\* last peak time and the GPS rate stay as they were, the peak detector is
\* not called, and the fix becomes the last position.
C29_NoElapsedTimeNoSample ==
    [][ (PositionStep /\ LastFix # null /\ now' <= LastFix[1].timestamp)
            => /\ GPSDetector' = GPSDetector
               /\ lastOp'.analysed = null
               /\ LastFix'[1].timestamp = now' ]_vars

\* The distance of the fixes that were not counted, the first fix aside.
Uncounted == env.x - SteadyMove - GPSDetector.distance

\* C29, the case: the first fix after the regular stretch lay more than 3 m
\* from the previous one and carried an earlier timestamp; it is the last
\* position now.
C29_EarlierFix ==
    /\ lastOp.name \in {"updatePosition", "handlePositionUpdate"}
    /\ LastFix # null /\ LastFix[1].timestamp = now
    /\ Len(GPSDetector.history) >= MIN_SAMPLES_FOR_DETECTION
    /\ GPSDetector.history[Len(GPSDetector.history)].timestamp > now
    /\ env.free = 1 /\ Uncounted > MIN_DISTANCE

\* C29, the other case: such a fix with the timestamp of the previous one.
C29_SameTimestampFix ==
    /\ lastOp.name \in {"updatePosition", "handlePositionUpdate"}
    /\ LastFix # null /\ LastFix[1].timestamp = now
    /\ Len(GPSDetector.history) >= MIN_SAMPLES_FOR_DETECTION
    /\ GPSDetector.history[Len(GPSDetector.history)].timestamp = now
    /\ env.free = 1 /\ Uncounted > MIN_DISTANCE


\* The detector state that only a firing may change: the time of the last
\* firing, the rate, the stroke count and the rate-history window.
DetectorUntouched ==
    /\ MotionDetector'.last = MotionDetector.last
    /\ MotionDetector'.rate = MotionDetector.rate
    /\ MotionDetector'.count = MotionDetector.count
    /\ RateHistory' = RateHistory

\* C30: a motion event that does not fire (the detector inactive, or the
\* firing condition false on the sample appended) leaves the time of the last
\* firing, the rate, the stroke count and the rate history unchanged, and a
\* display update, which reads the motion rate and the GPS rate, changes no
\* state of the motion detector or of the GPS detector.
C30_OnlyFiringMutates ==
    [][ /\ ( /\ lastOp'.name = "handleDeviceMotion"
             /\ ~( MotionDetector.active
                     /\ FiringCondition(MotionDetector'.history, MotionDetector.last) ) )
            => DetectorUntouched
        /\ lastOp'.name = "updateDisplay"
            => /\ DetectorUntouched
               /\ MotionDetector' = MotionDetector
               /\ GPSDetector' = GPSDetector ]_vars

\* C30, the case: after a display update, a sample above the threshold
\* arrived 800 ms or less after the last firing; it was appended to the
\* window and did not fire, and the rate of the earlier firing is still held.
C30_SuppressedSampleKeepsRate ==
    /\ lastOp.name = "handleDeviceMotion" /\ lastOp.prev = "updateDisplay"
    /\ MotionDetector.active
    /\ Len(MotionDetector.history) >= BASELINE_SAMPLE_SIZE
    /\ MotionDetector.history[Len(MotionDetector.history)].timestamp = now
    /\ AboveAverage(MotionDetector.history[Len(MotionDetector.history)].magnitude,
                    Slice(MotionDetector.history, BASELINE_SAMPLE_SIZE),
                    ACCELERATION_THRESHOLD)
    /\ MotionDetector.last # now
    /\ now - MotionDetector.last <= MIN_STROKE_INTERVAL
    /\ MotionDetector.rate > 0


\* The motion detector's own state and the GPS detector's own state, the
\* copy of the GPS rate that the modular program keeps in SensorModel
\* included.
MotionOwned ==
    << MotionDetector.history, MotionDetector.last, MotionDetector.rate,
       MotionDetector.count, RateHistory >>

GPSOwned == << GPSDetector, SensorModel.gpsStrokeRate, SensorModel.speedPeaks >>

\* The running program after a motion event and a fix, in the two orders in
\* which the two callbacks can run.
MotionThenFix(magnitude, timestamp, position) ==
    IF program = "legacy"
    THEN << legacy_updatePosition(legacy_handleDeviceMotion(legacy, magnitude, timestamp), position) >>
    ELSE << DeliverFix(MotionController_handleDeviceMotion(TheApp, magnitude, timestamp), position) >>

FixThenMotion(magnitude, timestamp, position) ==
    IF program = "legacy"
    THEN << legacy_handleDeviceMotion(legacy_updatePosition(legacy, position), magnitude, timestamp) >>
    ELSE << MotionController_handleDeviceMotion(DeliverFix(TheApp, position), magnitude, timestamp) >>

\* The two callbacks commute on the state the program is in.
CallbacksCommute ==
    \A magnitude \in {Baseline, Spike}, d \in {6} :
        LET position == [x |-> env.x + d, timestamp |-> now + GPSTick]
        IN MotionThenFix(magnitude, now + MotionTick, position)
               = FixThenMotion(magnitude, now + MotionTick, position)

\* C31: a motion event leaves the GPS detector's state (speed history, peaks,
\* last peak, GPS rate) unchanged, a GPS fix leaves the motion detector's
\* state (acceleration history, last firing, motion rate, count, rate
\* history) unchanged, and in every state a motion event and a fix give the
\* same program state in either order, so each detector's firings and rates
\* are those of its own stream alone.
C31_DetectorsShareNoState ==
    /\ []CallbacksCommute
    /\ [][ /\ lastOp'.name = "handleDeviceMotion" => GPSOwned' = GPSOwned
           /\ PositionStep => MotionOwned' = MotionOwned ]_vars

\* C31, the case: a fix was accepted as a peak and changed the GPS rate
\* while the motion detector held a rate of its own and a full window.
C31_PeakBesideMotionRate ==
    /\ lastOp.name \in {"updatePosition", "handlePositionUpdate"}
    /\ GPSDetector.last = now
    /\ GPSDetector.rate > 0
    /\ MotionDetector.rate > 0
    /\ MotionDetector.count > 0
    /\ Len(MotionDetector.history) >= BASELINE_SAMPLE_SIZE


\* The workout of the running program: whether it runs, when it started and
\* the elapsed time the display update passes to the announcements, in ms.
Running == IF program = "legacy" THEN legacy.isRunning ELSE WorkoutModel.isRunning

StartTime == IF program = "legacy" THEN legacy.startTime ELSE WorkoutModel.startTime

Elapsed ==
    IF program = "legacy" THEN now - legacy.startTime[1]
    ELSE WorkoutModel_getElapsedTime(WorkoutModel, now)

\* What a display update now, with the two dropdowns at these intervals,
\* would announce.
AnnouncedBy(strokeRateInterval, splitInterval) ==
    IF program = "legacy"
    THEN legacy_updateDisplay(legacy, now, strokeRateInterval, splitInterval).spoken
    ELSE app_updateDisplay(TheApp, now, strokeRateInterval, splitInterval).ui.spoken

\* A display update announces a type only with a positive interval that has
\* elapsed since that type's tracker.
AnnouncedWhenDue ==
    Running =>
      \A strokeRateInterval \in AnnounceIntervals, splitInterval \in AnnounceIntervals :
        LET spoken == AnnouncedBy(strokeRateInterval, splitInterval)
            last == Trackers(legacy, WorkoutModel)
        IN /\ "strokeRate" \in spoken
                => strokeRateInterval > 0 /\ Elapsed - last.strokeRate >= strokeRateInterval
           /\ "split" \in spoken
                => splitInterval > 0 /\ Elapsed - last.split >= splitInterval

\* An announcement sets its tracker to the elapsed time, and within one
\* workout a tracker never goes back.
TrackersFollow ==
    /\ lastOp'.name = "updateDisplay"
         => /\ "strokeRate" \in Spoken' => Trackers(legacy, WorkoutModel)'.strokeRate = Elapsed'
            /\ "split" \in Spoken' => Trackers(legacy, WorkoutModel)'.split = Elapsed'
    /\ (Running /\ Running' /\ StartTime' = StartTime)
         => /\ Trackers(legacy, WorkoutModel)'.strokeRate >= Trackers(legacy, WorkoutModel).strokeRate
            /\ Trackers(legacy, WorkoutModel)'.split >= Trackers(legacy, WorkoutModel).split

\* C32: no announcement of a type is made while its interval is 0 or less,
\* and an announcement is made only when at least the interval has elapsed
\* since the tracker of its type, which holds the elapsed time of the last
\* announcement of that type or a later time: two consecutive announcements
\* of one type in one workout are at least the interval apart.
C32_AnnouncementInterval ==
    /\ []AnnouncedWhenDue
    /\ [][TrackersFollow]_vars

\* C32, the case: the stroke rate was announced earlier in the workout, time
\* went on by less than the shortest interval, and the display update did not
\* announce it again although a rate is shown.
C32_NotYetDue ==
    /\ lastOp.name = "updateDisplay"
    /\ "strokeRate" \notin Spoken
    /\ Trackers(legacy, WorkoutModel).strokeRate > 0
    /\ Elapsed > Trackers(legacy, WorkoutModel).strokeRate
    /\ Elapsed - Trackers(legacy, WorkoutModel).strokeRate < 10000
    /\ MotionDetector.rate > 0
    /\ GPSDetector.rate > 0


\* C33: a display update in which no stroke-rate announcement is spoken
\* leaves the stroke-rate announce tracker unchanged.
C33_TrackerOnlyWhenSpoken ==
    [][ (lastOp'.name = "updateDisplay" /\ "strokeRate" \notin Spoken')
            => Trackers(legacy, WorkoutModel)'.strokeRate
                   = Trackers(legacy, WorkoutModel).strokeRate ]_vars

\* C33 with a single method selected: a display update that speaks no stroke
\* rate leaves the tracker unchanged in the legacy program, and in the
\* modular program when the method is 'gps' or 'motion'.
C33_SingleMethodTracker ==
    [][ ( /\ lastOp'.name = "updateDisplay" /\ "strokeRate" \notin Spoken'
          /\ program = "modular" => SensorModel.strokeRateMethod # "both" )
            => Trackers(legacy, WorkoutModel)'.strokeRate
                   = Trackers(legacy, WorkoutModel).strokeRate ]_vars


\* The display-update loops that are scheduled: pending timeouts of the
\* legacy program, interval timers of the modular program.
Loops == IF program = "legacy" THEN legacy.timeouts ELSE ui.intervals

\* C34: at any time at most one display-update loop is scheduled, whatever
\* the sequence of start, stop and reset.
C34_AtMostOneLoop == Loops <= 1

\* C34, the failing case in the legacy program: the workout was stopped
\* and started again before the pending timeout ran, and two timeouts are
\* pending, each of which reschedules itself.
C34_RestartBeforeTimeout ==
    /\ program = "legacy"
    /\ lastOp.name = "startWorkout" /\ lastOp.prev = "stopWorkout"
    /\ legacy.isRunning
    /\ legacy.timeouts = 2

\* C34, the part about a stopped workout: a timer of the loop that runs
\* while the workout is not running updates no element of the display,
\* announces nothing and, in the legacy program, schedules no further
\* timeout.
C34_StoppedTimerDoesNothing ==
    [][ lastOp'.name = "timeout"
          => /\ legacy' = [legacy EXCEPT !.timeouts = @ - 1] \/ legacy' = legacy
             /\ program = "legacy" => legacy'.timeouts = legacy.timeouts - 1
             /\ ui' = ui /\ WorkoutModel' = WorkoutModel /\ SensorModel' = SensorModel ]_vars


\* The devicemotion handlers on the window and the isListening flag of the
\* object that registered them.
Handlers == IF program = "class" THEN SensorsModel.handlers ELSE MotionController.handlers

Listening == IF program = "class" THEN SensorsModel.isListening ELSE MotionController.isListening

\* C35: after any sequence of requestPermission, removeListeners and
\* cleanup calls exactly one devicemotion handler is registered when
\* isListening is true and none when it is false.
C35_OneHandlerWhenListening == Handlers = (IF Listening THEN 1 ELSE 0)

\* C35 for SensorsModel, which registers and removes the one bound method.
C35_SensorsModelOneHandler ==
    program = "class" => SensorsModel.handlers = (IF SensorsModel.isListening THEN 1 ELSE 0)

\* C35, the failing case: after requestPermission, cleanup and
\* requestPermission two handlers of MotionController are registered, and
\* one motion event was appended to the window twice.
C35_EventProcessedTwice ==
    /\ program = "modular"
    /\ lastOp.name = "handleDeviceMotion"
    /\ MotionController.handlers = 2
    /\ LET h == SensorModel.accelerationHistory
       IN /\ Len(h) >= 2
          /\ h[Len(h)].timestamp = now
          /\ h[Len(h) - 1].timestamp = now
          /\ Len(h) = 2 \/ h[Len(h) - 2].timestamp < now


\* A sensor callback of the legacy or of the modular program ran in the step.
SensorStep ==
    /\ program \in {"legacy", "modular"}
    /\ lastOp'.name = "handleDeviceMotion" \/ PositionStep

\* C36: while no workout is running a motion event or a GPS fix changes no
\* detector or workout state: the windows, the stroke count, the distance,
\* the two rates and the two last-trigger timestamps stay as they were.
C36_IdleEventsChangeNothing ==
    [][ (SensorStep /\ ~Running)
            => MotionOwned' = MotionOwned /\ GPSOwned' = GPSOwned ]_vars

\* C36 for the legacy program, whose two callbacks return when no workout
\* is running.
C36_LegacyIdleEventsChangeNothing ==
    [][ (SensorStep /\ ~Running /\ program = "legacy")
            => MotionOwned' = MotionOwned /\ GPSOwned' = GPSOwned ]_vars

\* C36, the case in the legacy program: a motion event arrived after the
\* workout was stopped and was not appended to the window, which still
\* holds the samples of the workout.
C36_LegacyEventAfterStop ==
    /\ program = "legacy"
    /\ lastOp.name = "handleDeviceMotion" /\ lastOp.prev = "stopWorkout"
    /\ ~legacy.isRunning
    /\ Len(legacy.accelerationHistory) > 0
    /\ legacy.accelerationHistory[Len(legacy.accelerationHistory)].timestamp < now


\* The fix of the step was handed to the legacy peak analysis with a speed
\* below 0.5 m/s.
SlowFixAnalysed ==
    /\ program = "legacy"
    /\ lastOp'.name = "updatePosition"
    /\ lastOp'.analysed # null
    /\ lastOp'.analysed[1].speed < MIN_SPEED

\* C37: in the legacy program every speed of the history is 0.5 m/s or
\* more, and a fix slower than 0.5 m/s that the peak analysis is called
\* with is not recorded in the history or as a peak and changes neither
\* lastSpeedPeak nor the GPS rate.
C37_SlowFixNeverPeak ==
    /\ [](\A i \in 1..Len(legacy.speedHistory) : legacy.speedHistory[i].speed >= MIN_SPEED)
    /\ [][ SlowFixAnalysed
             => /\ legacy'.speedPeaks = legacy.speedPeaks
                /\ legacy'.lastSpeedPeak = legacy.lastSpeedPeak
                /\ legacy'.gpsStrokeRate = legacy.gpsStrokeRate
                /\ legacy'.speedHistory = legacy.speedHistory ]_vars

\* C37, the case: a fix slower than 0.5 m/s was analysed against a history
\* of five speeds or more, more than 1000 ms after the last peak.
C37_SlowFixAgainstHistory ==
    /\ program = "legacy"
    /\ lastOp.name = "updatePosition"
    /\ lastOp.analysed # null
    /\ lastOp.analysed[1].speed < MIN_SPEED
    /\ Len(legacy.speedHistory) >= MIN_SAMPLES_FOR_DETECTION
    /\ now - legacy.lastSpeedPeak > MIN_TIME_BETWEEN_PEAKS


\* The stored workout list, and whether a list is ordered newest first.
StoredWorkouts == WorkoutStorage_getWorkouts(ui)

NewestFirst(w) == \A i \in 1..Len(w), j \in 1..Len(w) : i < j => w[i].id >= w[j].id

\* A save put its workout first and kept the workouts stored before it in
\* their order, all of them or the 99 newest.
SavedFirst ==
    LET before == StoredWorkouts
        after == StoredWorkouts'
        kept == Min(Len(before), MAX_WORKOUTS - 1)
    IN /\ Len(after) = kept + 1
       /\ after[1].id = now'
       /\ << after[1] >> = ui'.saved
       /\ SubSeq(after, 2, Len(after)) = SubSeq(before, 1, kept)

\* C38: after any sequence of saveWorkout calls the stored list holds at
\* most 100 workouts, newest first; every save puts its workout first and
\* keeps the workouts stored before it, dropping the oldest when the list
\* would exceed 100.
C38_HundredNewestFirst ==
    /\ [](Len(StoredWorkouts) <= MAX_WORKOUTS /\ NewestFirst(StoredWorkouts))
    /\ [][lastOp'.name = "saveWorkout" => SavedFirst]_vars

\* C38, the case: a workout was saved to a full list of 100 and the oldest
\* workout of that list was dropped.
C38_OldestDropped ==
    /\ lastOp.name = "saveWorkout" /\ lastOp.prev = "load"
    /\ Len(StoredWorkouts) = MAX_WORKOUTS
    /\ StoredWorkouts[1].id = now
    /\ StoredWorkouts[MAX_WORKOUTS] = Stored(MAX_WORKOUTS)[MAX_WORKOUTS - 1]


\* C39: after any sequence of saveWorkout, deleteWorkout, clearAllWorkouts
\* and importData calls getLastWorkout() returns null when the stored list
\* is empty and the first workout of getWorkouts() otherwise.
C39_LastIsFirstStored ==
    WorkoutStorage_getLastWorkout(ui)
        = (IF StoredWorkouts = << >> THEN null ELSE << StoredWorkouts[1] >>)

\* C39, the failing case: the workout saved last was deleted, the stored
\* list does not hold it any more, and getLastWorkout() still returns it.
C39_DeletedStillLast ==
    /\ lastOp.name = "deleteWorkout" /\ lastOp.prev = "saveWorkout"
    /\ WorkoutStorage_getLastWorkout(ui) # null
    /\ \A i \in 1..Len(StoredWorkouts) :
           StoredWorkouts[i] # WorkoutStorage_getLastWorkout(ui)[1]

\* C39 for saves and clears: a step that is not a delete or an import keeps
\* getLastWorkout() equal to the first stored workout, or null with an empty
\* list, when it was so before.
C39_SaveAndClearKeepLast ==
    [][ (C39_LastIsFirstStored /\ lastOp'.name \in {"saveWorkout", "clearAllWorkouts"})
            => C39_LastIsFirstStored' ]_vars

=============================================================================
